---- MODULE Spec2Model ----
(***************************************************************************)
(* MadsPipeline: the LSL session recorder (LSLRecorder), the producers    *)
(* that feed it, the record file it writes, the session window that owns  *)
(* the recorder, and the review window that loads and plays the record.   *)
(*                                                                         *)
(* Floating point timestamps are modelled as integers (clock ticks); in   *)
(* the review window one tick is one millisecond, so that the slider's    *)
(* hundredths of a second and the playback steps are whole numbers.       *)
(* Mouse coordinates are floats with an exact value: a fraction num/den   *)
(* with den > 0, so that a division is a division and not its argument.   *)
(* Python strings that the code inspects character by character (stream   *)
(* names, name filters, JSON number text) are tuples of one-character     *)
(* strings.  An Optional value is <<>> (None) or <<v>> (a value v).        *)
(***************************************************************************)
EXTENDS Integers, Sequences, FiniteSets, TLC

\* ------------------------------------------------------------------ bounds
\* The shared LSL clock (local_clock()) runs over 0..MaxClock.
MaxClock == 2
\* At most MaxSamples samples are queued in inlets or recorded at a time.
MaxSamples == 2
\* stream_info holds at most MaxInfo entries (start_recording appends to it).
MaxInfo == 2
\* A record queried by the overlay holds at most MaxTrack samples.
MaxTrack == 3
\* The worker threads one EmotiBit streamer starts in a run: at most MaxThreads.
MaxThreads == 2
\* At most MaxPending scheduled calls of _end_session wait to fire.
MaxPending == 2
\* At most MaxSessions sessions are created in the project.
MaxSessions == 2

\* ------------------------------------------------------------- Optional[T]
None == <<>>
Some(v) == <<v>>

\* ----------------------------------------------------------------- strings
UpperCase == <<"A", "B", "C", "D", "E", "F", "G", "H", "I", "J", "K", "L", "M", "N", "O", "P", "Q", "R", "S", "T", "U", "V", "W", "X", "Y", "Z">>
LowerCase == <<"a", "b", "c", "d", "e", "f", "g", "h", "i", "j", "k", "l", "m", "n", "o", "p", "q", "r", "s", "t", "u", "v", "w", "x", "y", "z">>

\* str.lower() on one character.
LowerChar(c) ==
    IF \E k \in 1..Len(UpperCase) : UpperCase[k] = c
    THEN LowerCase[CHOOSE k \in 1..Len(UpperCase) : UpperCase[k] = c]
    ELSE c

\* str.lower()
Lower(s) == [k \in 1..Len(s) |-> LowerChar(s[k])]

\* Python's `f in lname` on strings: f occurs as a contiguous substring.
Contains(f, lname) ==
    \E k \in 0..(Len(lname) - Len(f)) : SubSeq(lname, k + 1, k + Len(f)) = f

\* ----------------------------------------------------------------- streams
BridgeName == "MadsPipeline_BridgeEvents"
MouseName == "MadsPipeline_MouseTracking"

\* The StreamInfo of LSLBridgeStreamer's outlet.
BridgeStream == [name |-> BridgeName, type |-> "Markers", channel_format |-> "string"]
\* The StreamInfo of LSLMouseTrackingStreamer's outlet.
MouseStream == [name |-> MouseName, type |-> "Mouse", channel_format |-> "float32"]

\* The characters of each stream name.
Chars(name) ==
    IF name = BridgeName
    THEN <<"M", "a", "d", "s", "P", "i", "p", "e", "l", "i", "n", "e", "_", "B", "r", "i", "d", "g", "e", "E", "v", "e", "n", "t", "s">>
    ELSE IF name = MouseName
    THEN <<"M", "a", "d", "s", "P", "i", "p", "e", "l", "i", "n", "e", "_", "M", "o", "u", "s", "e", "T", "r", "a", "c", "k", "i", "n", "g">>
    ELSE <<"E", "y", "e", "T", "r", "a", "c", "k", "e", "r">>

\* A marker stream of a third-party device on the same network.
ExternalStream == [name |-> "EyeTracker", type |-> "Markers", channel_format |-> "string"]

AllStreams == {BridgeStream, MouseStream, ExternalStream}

\* What resolve_streams(wait_time) can return: the streams found, in any order.
ResolveResults ==
    {<<>>, <<BridgeStream>>, <<ExternalStream>>,
     <<BridgeStream, MouseStream>>, <<MouseStream, BridgeStream>>}

\* What resolve_streams returns in the recorder's life cycle below.
SessionResolveResults == {<<>>, <<ExternalStream>>, <<BridgeStream, MouseStream>>}

\* Values of the stream_name_filters argument (Optional[List[str]]).
FilterChoices ==
    {None,
     Some(<<>>),
     Some(<< <<"b", "r", "i", "d", "g", "e">> >>),
     Some(<< <<"M", "O", "U", "S", "E">> >>),
     Some(<< <<"e", "y", "e">> >>),
     Some(<< <<>> >>),
     Some(<< <<>>, <<"b", "r", "i", "d", "g", "e">> >>)}

\* ------------------------------------------------------------------- state
VARIABLES
    is_recording,        \* LSLRecorder.is_recording
    session_start_time,  \* LSLRecorder.session_start_time : Optional[float]
    inlets,              \* LSLRecorder.inlets : each inlet with its transport buffer
    stream_info,         \* LSLRecorder.stream_info
    recorded_data,       \* LSLRecorder.recorded_data
    clock,               \* pylsl.local_clock()
    file,                \* lsl_recorded_data.json : Optional[file content]
    lsl_data,            \* SessionReviewWindow.lsl_data
    window,              \* EmbeddedWebpageSessionWindow: the fields of the session window
    review,              \* SessionReviewWindow: playback and video fields
    emotibit,            \* EmotiBitBrainflowStreamer and the worker threads it started
    capture,             \* a ScreenRecorder and the capture threads it started
    project,             \* a Project in memory and the project folder on disk
    last                 \* history: the call just made, its arguments and outcome

vars == <<is_recording, session_start_time, inlets, stream_info, recorded_data,
          clock, file, lsl_data, window, review, emotibit, capture, project, last>>

\* The two windows, which no method of the recorder touches.
windows == <<window, review>>

\* EmbeddedWebpageSessionWindow.__init__ before _setup_bridge runs.
NewSessionWindow ==
    [pc |-> "setup_bridge",
     lsl_available |-> FALSE,
     lsl_streamer |-> FALSE,         \* self.lsl_streamer is not None
     lsl_mouse_streamer |-> FALSE,   \* self.lsl_mouse_streamer is not None
     lsl_recorder |-> FALSE,         \* self.lsl_recorder is not None
     lsl_timer |-> FALSE,            \* self.lsl_timer is running
     session_ending |-> FALSE,       \* self._session_ending
     screen_recorder |-> None,
     \* without an embedded_webpage_config: no target size, normalization on
     target_window_size |-> None,
     normalize_mouse_coordinates |-> TRUE,
     pending_end |-> 0,              \* QTimer.singleShot(500, self._end_session) not yet fired
     pending_close |-> FALSE,        \* QTimer.singleShot(200, self.close) not yet fired
     closed |-> FALSE,               \* a closeEvent was accepted
     teardowns |-> 0,                \* history: runs of the body of _end_session
     emitted |-> 0]                  \* history: session_ended.emit calls

\* SessionReviewWindow.__init__ before _load_session_data runs.
NewReviewWindow ==
    [pc |-> "load",                  \* _load_session_data has not run yet
     session_duration |-> 0,
     current_time |-> 0,
     is_playing |-> FALSE,
     playback_timer |-> FALSE,       \* the playback timer is running
     seeking |-> FALSE,              \* self._seeking
     video_cap |-> FALSE,            \* a video is open
     video_fps |-> 30,
     video_frame_count |-> 0,
     frame_number |-> None]          \* the frame _update_overlay last sought

\* EmotiBitBrainflowStreamer.__init__.  threads: every worker thread started so
\* far, each with its place in _run (pc), what its latest get_board_data
\* returned (last_read) and whether the session of its board was released.
NewStreamer ==
    [started |-> FALSE,              \* self._started
     stop_event |-> FALSE,           \* self._stop_event.is_set()
     thread |-> None,                \* self._thread: the index of the thread
     board |-> None,                 \* self._board: the thread whose board it is
     outlet |-> None,                \* self._outlet: the thread whose outlet it is
     main |-> "idle",                \* the caller: idle, or in stop() at join
     waited |-> 0,                   \* seconds the caller has waited in join
     threads |-> <<>>]

\* ScreenRecorder.__init__.  main: where the caller of stop_recording is;
\* threads: the capture threads started so far, each with its position in
\* _capture_loop; stopped_write: history, a frame was written to the video
\* after stop_recording had returned and before a new start.
NewScreenRecorder ==
    [is_recording |-> FALSE, stop_event |-> FALSE, capture_thread |-> None,
     video_writer |-> None, main |-> "idle", threads |-> <<>>,
     stopped_write |-> FALSE]

\* A project as ProjectManager.create_project leaves it: project.sessions
\* empty, project.json and the sessions folder on disk.  created: the number
\* of sessions create_session created so far; files: the files under the
\* project folder, each [root, session, name, content] for the path
\* root/session/name (root/name when session is "").
NewProject ==
    [sessions |-> {}, created |-> 0,
     files |-> {[root |-> "", session |-> "", name |-> "project.json",
                 content |-> "project"]}]

recorder == <<is_recording, session_start_time, inlets, stream_info, recorded_data>>

\* ------------------------------------------------------- start_recording
\* Python truthiness of an Optional[List]: None and [] are falsy.
Truthy(opt) == opt # None /\ opt[1] # <<>>

\* lower_filters = [f.lower() for f in stream_name_filters if f]
LowerFilters(patterns) ==
    LET kept == SelectSeq(patterns, LAMBDA f : f # <<>>)
    IN  [k \in 1..Len(kept) |-> Lower(kept[k])]

\* filtered_streams of start_recording.
FilterStreams(streams, stream_name_filters) ==
    IF Truthy(stream_name_filters)
    THEN LET lower_filters == LowerFilters(stream_name_filters[1])
         IN  SelectSeq(streams,
                 LAMBDA s :
                     LET lname == Lower(Chars(s.name))
                     IN  \E k \in 1..Len(lower_filters) :
                             \/ lower_filters[k] = lname
                             \/ Contains(lower_filters[k], lname))
    ELSE streams

\* filtered_streams for every resolve result and filter argument of the model
\* (FilterStreams, tabulated).
Filtered == [streams \in ResolveResults, f \in FilterChoices |-> FilterStreams(streams, f)]

\* StreamInlet(stream): a fresh inlet with an empty buffer.
StreamInlet(stream) == [stream |-> stream, buf |-> <<>>]

\* The info dict start_recording stores for a stream.
InfoOf(stream) == [name |-> stream.name, type |-> stream.type]

\* The loop "for stream in filtered_streams" run over the first n streams.
OpenedInlets(filtered, n) == [k \in 1..n |-> StreamInlet(filtered[k])]
OpenedInfo(filtered, n) == [k \in 1..n |-> InfoOf(filtered[k])]

\* The recorder fields as a call leaves them unchanged.
Untouched(outcome) ==
    [is_recording |-> is_recording, session_start_time |-> session_start_time,
     inlets |-> inlets, stream_info |-> stream_info, outcome |-> outcome]

\* start_recording when no stream was resolved, or none matched the filters,
\* had it gone on to the end of the method (what the code does not do).
StartEmptyRecords(outcome) ==
    [is_recording |-> TRUE, session_start_time |-> Some(clock),
     inlets |-> inlets, stream_info |-> stream_info, outcome |-> outcome]

\* start_recording when no stream was resolved, or none matched the filters:
\* print and return.
StartEmpty(outcome) == Untouched(outcome)

\* The effect of start_recording(wait_time, stream_name_filters) when
\* resolve_streams returns `streams`.  resolveRaises: resolve_streams raises.
\* failAt = k > 0: the k-th StreamInlet(stream) raises; failAt = 0: none does.
StartEffect(streams, stream_name_filters, resolveRaises, failAt) ==
    IF is_recording THEN Untouched("already_recording")
    ELSE IF resolveRaises
    THEN [Untouched("error") EXCEPT !.is_recording = FALSE]
    ELSE IF streams = <<>> THEN StartEmpty("no_streams")
    ELSE LET filtered == Filtered[streams, stream_name_filters] IN
         IF filtered = <<>> THEN StartEmpty("no_match")
         ELSE IF failAt > 0
         THEN [is_recording |-> FALSE,
               session_start_time |-> session_start_time,
               inlets |-> inlets \o OpenedInlets(filtered, failAt - 1),
               stream_info |-> stream_info \o OpenedInfo(filtered, failAt - 1),
               outcome |-> "error"]
         ELSE [is_recording |-> TRUE,
               session_start_time |-> Some(clock),
               inlets |-> inlets \o OpenedInlets(filtered, Len(filtered)),
               stream_info |-> stream_info \o OpenedInfo(filtered, Len(filtered)),
               outcome |-> "started"]

\* LSLRecorder.start_recording
StartRecording(streams, stream_name_filters, resolveRaises, failAt) ==
    LET filtered == Filtered[streams, stream_name_filters]
        reachesOpen == ~is_recording /\ ~resolveRaises /\ filtered # <<>>
        r == StartEffect(streams, stream_name_filters, resolveRaises, failAt)
    IN  \* an input is a distinct input only where the call consults it
        /\ is_recording => streams = <<>> /\ stream_name_filters = None /\ ~resolveRaises
        /\ resolveRaises => streams = <<>> /\ stream_name_filters = None
        /\ failAt <= Len(filtered)
        /\ failAt > 0 => reachesOpen
        /\ reachesOpen => Len(stream_info) + Len(filtered) <= MaxInfo
        /\ is_recording' = r.is_recording
        /\ session_start_time' = r.session_start_time
        /\ inlets' = r.inlets
        /\ stream_info' = r.stream_info
        /\ last' = [op |-> "start_recording", streams |-> streams,
                    filters |-> stream_name_filters,
                    selected |-> IF r.outcome \in {"started", "no_match"} THEN filtered ELSE <<>>,
                    outcome |-> r.outcome, raised |-> FALSE]
        /\ UNCHANGED <<recorded_data, clock, file, lsl_data,
                   windows, emotibit, capture, project>>

\* ------------------------------------------------------------- producers
\* json.dumps(event_data) of a bridge event, as LSLBridgeStreamer.push_event sends it.
ClickEventText == "{\"type\": \"click\"}"
\* A marker of the third-party stream: a string that is no JSON document.
PlainMarkerText == "stimulus on"

\* The channel values a producer pushes, by stream: a Python list of str
\* (channel_format 'string') or of float (channel_format 'float32').
Payloads(stream) ==
    IF stream = BridgeStream THEN {[kind |-> "str", values |-> <<ClickEventText>>]}
    ELSE IF stream = MouseStream
    THEN {[kind |-> "float", values |-> <<10, 20, 0>>]}   \* [x, y, event_type]
    ELSE {[kind |-> "str", values |-> <<PlainMarkerText>>]}

\* The inlets subscribed to `stream`.
InletsOn(stream) == {k \in 1..Len(inlets) : inlets[k].stream = stream}

RECURSIVE Queued(_)
\* The number of samples queued in the inlets ins.
Queued(ins) == IF ins = <<>> THEN 0 ELSE Len(Head(ins).buf) + Queued(Tail(ins))

\* outlet.push_sample(values, local_clock()): the transport delivers the sample,
\* in FIFO order, to every inlet subscribed to the stream.
Push(stream, values) ==
    /\ is_recording
    /\ InletsOn(stream) # {}
    /\ Len(recorded_data) + Queued(inlets) + Cardinality(InletsOn(stream)) <= MaxSamples
    /\ inlets' = [k \in 1..Len(inlets) |->
                     IF inlets[k].stream = stream
                     THEN [inlets[k] EXCEPT !.buf = Append(@, [timestamp |-> clock, data |-> values])]
                     ELSE inlets[k]]
    /\ last' = [op |-> "push", raised |-> FALSE]
    /\ UNCHANGED <<is_recording, session_start_time, stream_info, recorded_data,
                   clock, file, lsl_data,
                   windows, emotibit, capture, project>>

\* Time passes on the LSL clock.
ClockAdvance ==
    /\ clock < MaxClock
    /\ clock' = clock + 1
    /\ last' = [op |-> "clock", raised |-> FALSE]
    /\ UNCHANGED <<is_recording, session_start_time, inlets, stream_info,
                   recorded_data, file, lsl_data,
                   windows, emotibit, capture, project>>

\* --------------------------------------------------------- record_sample
\* relative_time = timestamp - self.session_start_time if self.session_start_time else 0.0
\* (None and 0.0 are falsy).
RelativeTime(timestamp, start) ==
    IF start # None /\ start[1] # 0 THEN timestamp - start[1] ELSE 0

\* The recorded_sample dict of record_sample.
RecordedSample(pulled, i, clock_offset) ==
    [timestamp |-> pulled.timestamp,
     relative_time |-> RelativeTime(pulled.timestamp, session_start_time),
     data |-> pulled.data,
     stream_index |-> i - 1,
     stream_info |-> stream_info[i],
     clock_offset |-> clock_offset,
     local_time_when_recorded |-> clock]

RECURSIVE RecordLoopAborting(_, _, _, _, _)
\* The loop of record_sample without its per-inlet try/except: the first failing
\* inlet ends the tick with an exception.
RecordLoopAborting(i, ins, data, faults, offsets) ==
    IF i > Len(ins) THEN [inlets |-> ins, recorded_data |-> data, raised |-> FALSE]
    ELSE IF faults[i] = "pull"
    THEN [inlets |-> ins, recorded_data |-> data, raised |-> TRUE]
    ELSE IF ins[i].buf = <<>>
    THEN RecordLoopAborting(i + 1, ins, data, faults, offsets)
    ELSE LET pulled == Head(ins[i].buf)
             rest == [ins EXCEPT ![i].buf = Tail(@)]
         IN  IF faults[i] = "time_correction" \/ i > Len(stream_info)
             THEN [inlets |-> rest, recorded_data |-> data, raised |-> TRUE]
             ELSE RecordLoopAborting(i + 1, rest,
                      Append(data, RecordedSample(pulled, i, offsets[i])),
                      faults, offsets)

RECURSIVE RecordLoop(_, _, _, _, _)
\* "for i, inlet in enumerate(self.inlets)" from inlet i on (1-based here).
\* faults[i] = "pull": inlet.pull_sample raises; "time_correction":
\* inlet.time_correction raises; offsets[i]: what time_correction returns.
RecordLoop(i, ins, data, faults, offsets) ==
    IF i > Len(ins) THEN [inlets |-> ins, recorded_data |-> data, raised |-> FALSE]
    ELSE IF faults[i] = "pull"
    THEN RecordLoop(i + 1, ins, data, faults, offsets)        \* inner except: continue
    ELSE IF ins[i].buf = <<>>
    THEN RecordLoop(i + 1, ins, data, faults, offsets)        \* (None, None): if sample is falsy
    ELSE LET pulled == Head(ins[i].buf)
             rest == [ins EXCEPT ![i].buf = Tail(@)]
         IN  IF faults[i] = "time_correction" \/ i > Len(stream_info)
             THEN RecordLoop(i + 1, rest, data, faults, offsets)   \* outer except: continue
             ELSE RecordLoop(i + 1, rest,
                      Append(data, RecordedSample(pulled, i, offsets[i])),
                      faults, offsets)

\* LSLRecorder.record_sample, one tick of the 20 ms timer.
RecordSample(faults, offsets) ==
    /\ \A i \in 1..Len(inlets) :
           \* a fault or an offset is a distinct input only where it is consulted
           /\ (~is_recording \/ inlets[i].buf = <<>>) => faults[i] = "ok" /\ offsets[i] = 0
           /\ faults[i] # "ok" => offsets[i] = 0
           \* what inlet.time_correction() can return: no offset for an outlet
           \* of this machine, and some or none for the device on the network
           /\ offsets[i] \in (IF inlets[i].stream = ExternalStream THEN {-1, 0} ELSE {0})
    /\ LET r == IF is_recording
                THEN RecordLoop(1, inlets, recorded_data, faults, offsets)
                ELSE [inlets |-> inlets, recorded_data |-> recorded_data, raised |-> FALSE]
       IN  /\ inlets' = r.inlets
           /\ recorded_data' = r.recorded_data
           /\ last' = [op |-> "record_sample", was_recording |-> is_recording,
                       faults |-> faults, raised |-> r.raised,
                       appended |-> Len(r.recorded_data) - Len(recorded_data)]
    /\ UNCHANGED <<is_recording, session_start_time, stream_info, clock, file,
                   lsl_data,
                   windows, emotibit, capture, project>>

\* A stop_recording that refuses to run on a recorder that is not recording.
StopRecordingStrict(closeRaises) ==
    /\ closeRaises => inlets # <<>>
    /\ is_recording' = FALSE
    /\ inlets' = <<>>
    /\ last' = [op |-> "stop_recording", raised |-> ~is_recording,
                repeated |-> last.op = "stop_recording"]
    /\ UNCHANGED <<session_start_time, stream_info, recorded_data, clock, file, lsl_data,
                   windows, emotibit, capture, project>>

\* --------------------------------------------------------- stop_recording
\* A stop_recording that also discards the record.
StopRecordingClearing(closeRaises) ==
    /\ closeRaises => inlets # <<>>
    /\ is_recording' = FALSE
    /\ inlets' = <<>>
    /\ recorded_data' = <<>>
    /\ last' = [op |-> "stop_recording", raised |-> FALSE,
                repeated |-> last.op = "stop_recording"]
    /\ UNCHANGED <<session_start_time, stream_info, clock, file, lsl_data,
                   windows, emotibit, capture, project>>

\* LSLRecorder.stop_recording.  closeRaises: an inlet.close_stream() raises
\* (caught and ignored).
StopRecording(closeRaises) ==
    /\ closeRaises => inlets # <<>>
    /\ is_recording' = FALSE
    /\ inlets' = <<>>
    /\ last' = [op |-> "stop_recording", raised |-> FALSE,
                repeated |-> last.op = "stop_recording"]
    /\ UNCHANGED <<session_start_time, stream_info, recorded_data, clock, file, lsl_data,
                   windows, emotibit, capture, project>>

\* ------------------------------------------------------------------ JSON
Digits == <<"0", "1", "2", "3", "4", "5", "6", "7", "8", "9">>

RECURSIVE NatToText(_)
\* The decimal digits of a natural number.
NatToText(n) ==
    IF n < 10 THEN <<Digits[n + 1]>>
    ELSE Append(NatToText(n \div 10), Digits[(n % 10) + 1])

\* json.dump of a number: its text.
NumToText(n) == IF n < 0 THEN <<"-">> \o NatToText(-n) ELSE NatToText(n)

RECURSIVE TextToNat(_)
TextToNat(t) ==
    IF t = <<>> THEN 0
    ELSE 10 * TextToNat(SubSeq(t, 1, Len(t) - 1)) + (CHOOSE d \in 1..10 : Digits[d] = t[Len(t)]) - 1

\* json.load of a number text.
TextToNum(t) == IF Head(t) = "-" THEN -TextToNat(Tail(t)) ELSE TextToNat(t)

\* json.dump / json.load of an Optional[float]: null or the number.
OptToText(opt) == IF opt = None THEN <<"n", "u", "l", "l">> ELSE NumToText(opt[1])
TextToOpt(t) == IF t = <<"n", "u", "l", "l">> THEN None ELSE Some(TextToNum(t))

\* json.dumps(session_start_event), as _setup_bridge pushes it.
SessionStartText == "{\"type\": \"session_start\"}"

\* json.loads(data_item) succeeds: the string is a JSON document.
IsJson(text) == text \in {ClickEventText, SessionStartText}

\* json.loads(data_item) of a JSON document.
JsonLoads(text) ==
    IF text = SessionStartText THEN [type |-> "session_start"] ELSE [type |-> "click"]

\* json.dump / json.load of a list of channel values.
DumpValues(d) ==
    IF d.kind = "float"
    THEN [d EXCEPT !.values = [k \in 1..Len(d.values) |-> NumToText(d.values[k])]]
    ELSE d
LoadValues(d) ==
    IF d.kind = "float"
    THEN [d EXCEPT !.values = [k \in 1..Len(d.values) |-> TextToNum(d.values[k])]]
    ELSE d

\* ------------------------------------------------------------ save_to_file
\* An entry of parsed_samples built without trying json.loads: the data is the
\* channel values whatever the first channel holds.
ParsedSampleRawOnly(sample) ==
    [timestamp |-> sample.timestamp,
     relative_time |-> sample.relative_time,
     stream_name |-> sample.stream_info.name,
     stream_type |-> sample.stream_info.type,
     clock_offset |-> sample.clock_offset,
     local_time_when_recorded |-> sample.local_time_when_recorded,
     data |-> [decoded |-> FALSE, value |-> sample.data],
     raw_data |-> IF Len(sample.data.values) > 0 THEN Some(sample.data) ELSE None]

\* The entry of parsed_samples that save_to_file builds for one recorded sample.
ParsedSample(sample) ==
    LET common == [timestamp |-> sample.timestamp,
                   relative_time |-> sample.relative_time,
                   stream_name |-> sample.stream_info.name,
                   stream_type |-> sample.stream_info.type,
                   clock_offset |-> sample.clock_offset,
                   local_time_when_recorded |-> sample.local_time_when_recorded]
        raw == [decoded |-> FALSE, value |-> sample.data]
    IN  IF Len(sample.data.values) > 0
        THEN IF sample.data.kind = "str" /\ IsJson(sample.data.values[1])
             THEN common @@ [data |-> [decoded |-> TRUE, value |-> JsonLoads(sample.data.values[1])],
                             raw_data |-> Some(sample.data)]
             ELSE common @@ [data |-> raw, raw_data |-> Some(sample.data)]
        ELSE common @@ [data |-> raw, raw_data |-> None]

\* parsed_samples with the samples whose payload does not decode left out.
ParsedSamplesDecodedOnly(data) ==
    LET kept == SelectSeq(data, LAMBDA x : x.data.kind # "str" \/ IsJson(x.data.values[1]))
    IN  [k \in 1..Len(kept) |-> ParsedSample(kept[k])]

\* parsed_samples: one entry per sample of recorded_data, in order.
ParsedSamples(data) == [k \in 1..Len(data) |-> ParsedSample(data[k])]

\* json.dump of one entry of lsl_samples.
DumpSample(p) ==
    [timestamp |-> NumToText(p.timestamp),
     relative_time |-> NumToText(p.relative_time),
     stream_name |-> p.stream_name,
     stream_type |-> p.stream_type,
     data |-> IF p.data.decoded THEN p.data ELSE [p.data EXCEPT !.value = DumpValues(@)],
     raw_data |-> IF p.raw_data = None THEN None ELSE Some(DumpValues(p.raw_data[1])),
     clock_offset |-> NumToText(p.clock_offset),
     local_time_when_recorded |-> NumToText(p.local_time_when_recorded)]

\* json.load of one entry of lsl_samples.
LoadSample(j) ==
    [timestamp |-> TextToNum(j.timestamp),
     relative_time |-> TextToNum(j.relative_time),
     stream_name |-> j.stream_name,
     stream_type |-> j.stream_type,
     data |-> IF j.data.decoded THEN j.data ELSE [j.data EXCEPT !.value = LoadValues(@)],
     raw_data |-> IF j.raw_data = None THEN None ELSE Some(LoadValues(j.raw_data[1])),
     clock_offset |-> TextToNum(j.clock_offset),
     local_time_when_recorded |-> TextToNum(j.local_time_when_recorded)]

\* The text json.dump(output_data, f) writes.
DumpRecord ==
    [complete |-> TRUE,
     stream_info |-> stream_info,
     session_start_time |-> OptToText(session_start_time),
     total_samples |-> NumToText(Len(recorded_data)),
     lsl_samples |-> LET parsed_samples == ParsedSamples(recorded_data)
                     IN  [k \in 1..Len(parsed_samples) |-> DumpSample(parsed_samples[k])]]

\* A file that open(filepath, 'w') truncated and json.dump did not finish.
PartialFile == [complete |-> FALSE]

\* LSLRecorder.save_to_file.  ioFault = "open": mkdir or open raises;
\* "write": the write fails partway.
SaveToFile(ioFault) ==
    /\ file' = CASE ioFault = "none" -> Some(DumpRecord)
                 [] ioFault = "open" -> file
                 [] ioFault = "write" -> Some(PartialFile)
    /\ last' = [op |-> "save_to_file", io_fault |-> ioFault, raised |-> ioFault # "none"]
    /\ UNCHANGED <<is_recording, session_start_time, inlets, stream_info,
                   recorded_data, clock, lsl_data,
                   windows, emotibit, capture, project>>

\* ------------------------------------------------------ _load_session_data
\* SessionReviewWindow._load_session_data: lsl_data of a new review window.
LoadedSamples ==
    IF file = None THEN <<>>                       \* lsl_file.exists() is false
    ELSE IF ~file[1].complete THEN <<>>            \* json.load raises: lsl_data stays []
    ELSE [k \in 1..Len(file[1].lsl_samples) |-> LoadSample(file[1].lsl_samples[k])]

\* self.session_duration as _load_session_data computes it: last minus first
\* relative_time in record order, or session.duration when nothing was loaded.
SessionDuration(data, sessionDuration) ==
    IF data # <<>>
    THEN data[Len(data)].relative_time - data[1].relative_time
    ELSE sessionDuration

\* sessionDuration: self.session.duration (0: unset).  video: None when no
\* video file opens, else what cv2 reports for it, [fps, frame_count].
LoadSessionData(sessionDuration, video) ==
    /\ lsl_data' = LoadedSamples
    /\ review' = [NewReviewWindow EXCEPT
                     !.pc = "ready",
                     !.session_duration = SessionDuration(LoadedSamples, sessionDuration),
                     !.video_cap = video # None,
                     \* self.video_cap.get(cv2.CAP_PROP_FPS) or 30.0
                     !.video_fps = IF video # None /\ video[1].fps # 0
                                   THEN video[1].fps ELSE 30,
                     !.video_frame_count = IF video # None THEN video[1].frame_count ELSE 0]
    /\ last' = [op |-> "load_session_data", raised |-> FALSE,
                after_save |-> last.op = "save_to_file" /\ ~last.raised]
    /\ UNCHANGED <<is_recording, session_start_time, inlets, stream_info,
                   recorded_data, clock, file, window, emotibit, capture, project>>

\* ---------------------------------------------------------------- playback
Max(a, b) == IF a >= b THEN a ELSE b
Min(a, b) == IF a <= b THEN a ELSE b

\* int(x) of the quotient a / b, b > 0: truncation toward zero.
TruncDiv(a, b) == IF a >= 0 THEN a \div b ELSE -((-a) \div b)

\* frame_number of _update_overlay; current_time in milliseconds.
FrameNumber(current_time, video_fps, video_frame_count) ==
    Max(0, Min(TruncDiv(current_time * video_fps, 1000), video_frame_count - 1))

\* _update_overlay seeking a frame whether or not a video is open.
UpdateOverlayAlways(r) ==
    [r EXCEPT !.frame_number =
        Some(FrameNumber(r.current_time, r.video_fps, r.video_frame_count))]

\* _update_overlay: seek the video, when one is open, to the frame of current_time.
UpdateOverlay(r) ==
    IF r.video_cap
    THEN [r EXCEPT !.frame_number =
              Some(FrameNumber(r.current_time, r.video_fps, r.video_frame_count))]
    ELSE r

\* timeline_slider.setMaximum(max(1, int(self.session_duration * 100)))
SliderMaximum == Max(1, TruncDiv(review.session_duration, 10))

\* The steps of the review window leave the recorder, the file and the session
\* window alone.
ReviewFrame == UNCHANGED <<recorder, recorded_data, clock, file, lsl_data, window, emotibit, capture, project>>

\* timeline_slider.sliderPressed / sliderReleased: self._seeking.
SliderPressed ==
    /\ review.pc = "ready" /\ ~review.seeking
    /\ review' = [review EXCEPT !.seeking = TRUE]
    /\ last' = [op |-> "slider_pressed", raised |-> FALSE]
    /\ ReviewFrame

SliderReleased ==
    /\ review.pc = "ready" /\ review.seeking
    /\ review' = [review EXCEPT !.seeking = FALSE]
    /\ last' = [op |-> "slider_released", raised |-> FALSE]
    /\ ReviewFrame

\* SessionReviewWindow._on_timeline_changed(value), value in hundredths of a second.
OnTimelineChanged(value) ==
    /\ review.pc = "ready"
    /\ value \in 0..SliderMaximum
    /\ review' = UpdateOverlay([review EXCEPT !.current_time = value * 10])
    /\ last' = [op |-> "on_timeline_changed", value |-> value, raised |-> FALSE]
    /\ ReviewFrame

\* f"{relative_time:.2f}" read back by float(): the nearest hundredth of a
\* second, a tie going to the even hundredth.
FormatTime(relative_time) ==
    LET q == relative_time \div 10
        r == relative_time % 10
    IN  IF r < 5 THEN 10 * q
        ELSE IF r > 5 THEN 10 * (q + 1)
        ELSE IF q % 2 = 0 THEN 10 * q ELSE 10 * (q + 1)

\* SessionReviewWindow._on_event_selected with the row of sample k selected.
\* The rows of the events table are the samples of the bridge stream whose
\* data decoded to a dict with a type.
OnEventSelected(k) ==
    /\ review.pc = "ready"
    /\ k \in 1..Len(lsl_data)
    /\ lsl_data[k].stream_name = BridgeName /\ lsl_data[k].data.decoded
    /\ review' = UpdateOverlay(
                     [review EXCEPT !.current_time = FormatTime(lsl_data[k].relative_time)])
    /\ last' = [op |-> "on_event_selected", row |-> k, raised |-> FALSE]
    /\ ReviewFrame

\* SessionReviewWindow._toggle_playback.
TogglePlaybackOf(r) ==
    IF r.is_playing
    THEN [r EXCEPT !.playback_timer = FALSE, !.is_playing = FALSE]
    ELSE [r EXCEPT !.playback_timer = TRUE, !.is_playing = TRUE]

TogglePlayback ==
    /\ review.pc = "ready"
    /\ review' = TogglePlaybackOf(review)
    /\ last' = [op |-> "toggle_playback", raised |-> FALSE]
    /\ ReviewFrame

\* SessionReviewWindow._play_from_beginning.
PlayFromBeginning ==
    /\ review.pc = "ready"
    /\ LET r == UpdateOverlay([review EXCEPT !.current_time = 0])
       IN  review' = IF ~r.is_playing THEN TogglePlaybackOf(r) ELSE r
    /\ last' = [op |-> "play_from_beginning", raised |-> FALSE]
    /\ ReviewFrame

\* The speeds of speed_combo, in quarters: 0.25x, 0.5x, 1x, 1.5x, 2x, 4x.
SpeedQuarters == {1, 2, 4, 6, 8, 16}

\* An advance that never stops at the end of the session.
AdvancedUnclamped(r, step) == [r EXCEPT !.current_time = r.current_time + step]

\* An advance that stays at the end of the session without stopping the timer.
AdvancedWithoutStop(r, step) ==
    [r EXCEPT !.current_time = IF r.current_time + step >= r.session_duration
                               THEN r.session_duration ELSE r.current_time + step]

\* The body of "if not self._seeking" in _update_playback: add the step, and
\* at the end of the session stop there.
Advanced(r, step) ==
    LET t == r.current_time + step
    IN  IF t >= r.session_duration
        THEN TogglePlaybackOf([r EXCEPT !.current_time = r.session_duration])
        ELSE [r EXCEPT !.current_time = t]

\* SessionReviewWindow._update_playback, the slot of playback_timer; speed is
\* the current text of speed_combo, in quarters.  0.1 * speed seconds are
\* 25 ms for each quarter.
UpdatePlayback(speed) ==
    /\ review.pc = "ready" /\ review.playback_timer
    /\ review.seeking => speed = 4
    /\ review' = UpdateOverlay(IF ~review.seeking THEN Advanced(review, 25 * speed)
                                ELSE review)
    /\ last' = [op |-> "update_playback", speed |-> speed, seeking |-> review.seeking,
                from |-> review.current_time, raised |-> FALSE]
    /\ ReviewFrame

\* ----------------------------------------------------------------- queries
\* abs(x)
Abs(x) == IF x >= 0 THEN x ELSE -x

\* (data[0], data[1]) of a sample, or None when its data is no list of at
\* least two values.
PositionOf(sample) ==
    IF ~sample.data.decoded /\ Len(sample.data.value.values) >= 2
    THEN Some(<<sample.data.value.values[1], sample.data.value.values[2]>>)
    ELSE None

RECURSIVE ClosestFromLatest(_, _, _, _, _)
\* The loop of _get_mouse_position_at_time with "diff <= min_diff": of equally
\* close samples the last one wins.
ClosestFromLatest(data, time, i, closest, min_diff) ==
    IF i > Len(data) THEN closest
    ELSE IF data[i].stream_name = MouseName
            /\ (min_diff = None \/ Abs(data[i].relative_time - time) <= min_diff[1])
    THEN ClosestFromLatest(data, time, i + 1, Some(i), Some(Abs(data[i].relative_time - time)))
    ELSE ClosestFromLatest(data, time, i + 1, closest, min_diff)

RECURSIVE ClosestFrom(_, _, _, _, _)
\* The loop "for sample in self.lsl_data" of _get_mouse_position_at_time from
\* sample i on: closest is None or the index of the closest sample so far,
\* min_diff is None (float('inf')) or its distance.
ClosestFrom(data, time, i, closest, min_diff) ==
    IF i > Len(data) THEN closest
    ELSE IF data[i].stream_name = MouseName
            /\ (min_diff = None \/ Abs(data[i].relative_time - time) < min_diff[1])
    THEN ClosestFrom(data, time, i + 1, Some(i), Some(Abs(data[i].relative_time - time)))
    ELSE ClosestFrom(data, time, i + 1, closest, min_diff)

\* What _get_mouse_position_at_time(time) returns.
MousePositionAtTime(data, time) ==
    LET closest == ClosestFrom(data, time, 1, None, None)
    IN  IF closest # None THEN PositionOf(data[closest[1]]) ELSE None

\* What _get_mouse_trail(time, duration) returns.
MouseTrail(data, time, duration) ==
    LET start_time == Max(0, time - duration)
        end_time == time
        hits == SelectSeq(data,
                    LAMBDA x : /\ x.stream_name = MouseName
                               /\ start_time <= x.relative_time
                               /\ x.relative_time <= end_time
                               /\ PositionOf(x) # None)
    IN  [k \in 1..Len(hits) |-> PositionOf(hits[k])[1]]

\* SessionReviewWindow._get_mouse_position_at_time
GetMousePositionAtTime(time) ==
    /\ review.pc = "ready"
    /\ last' = [op |-> "get_mouse_position_at_time", time |-> time,
                result |-> MousePositionAtTime(lsl_data, time), raised |-> FALSE]
    /\ UNCHANGED <<recorder, recorded_data, clock, file, lsl_data, windows, emotibit, capture, project>>

\* SessionReviewWindow._get_mouse_trail
GetMouseTrail(time, duration) ==
    /\ review.pc = "ready"
    /\ last' = [op |-> "get_mouse_trail", time |-> time, duration |-> duration,
                result |-> MouseTrail(lsl_data, time, duration), raised |-> FALSE]
    /\ UNCHANGED <<recorder, recorded_data, clock, file, lsl_data, windows, emotibit, capture, project>>

\* ---------------------------------------------------------- session window
\* The inlets ins after an outlet of `stream` pushed `values` at the clock.
Delivered(ins, stream, values) ==
    [k \in 1..Len(ins) |->
        IF ins[k].stream = stream
        THEN [ins[k] EXCEPT !.buf = Append(@, [timestamp |-> clock, data |-> values])]
        ELSE ins[k]]

\* EmbeddedWebpageSessionWindow._setup_bridge.  lslAvailable: LSL_AVAILABLE.
\* initFault: which constructor raises ("bridge_streamer", "mouse_streamer") or
\* "none".  streams, resolveRaises, failAt: as for start_recording.  delivered:
\* whether a just created inlet on the bridge stream receives the
\* session_start event pushed right after start_recording.
SetupBridge(lslAvailable, initFault, streams, resolveRaises, failAt, delivered) ==
    LET created == lslAvailable /\ initFault = "none"
        filtered == Filtered[streams, None]
        r == StartEffect(streams, None, resolveRaises, failAt)
    IN  /\ window.pc = "setup_bridge"
        \* an input is a distinct input only where the call consults it
        /\ ~lslAvailable => initFault = "none"
        /\ ~created => streams = <<>> /\ ~resolveRaises /\ failAt = 0 /\ ~delivered
        /\ resolveRaises => streams = <<>>
        /\ failAt <= Len(filtered)
        /\ delivered => \E k \in 1..Len(r.inlets) : r.inlets[k].stream = BridgeStream
        /\ window' = [window EXCEPT
                         !.pc = "setup_screen_recording",
                         !.lsl_available = lslAvailable,
                         !.lsl_streamer = lslAvailable /\ initFault # "bridge_streamer",
                         !.lsl_mouse_streamer = created,
                         !.lsl_recorder = created,
                         !.lsl_timer = created]
        /\ IF created
           THEN /\ is_recording' = r.is_recording
                /\ session_start_time' = r.session_start_time
                /\ stream_info' = r.stream_info
                /\ inlets' = IF delivered
                              THEN Delivered(r.inlets, BridgeStream,
                                       [kind |-> "str", values |-> <<SessionStartText>>])
                              ELSE r.inlets
           ELSE UNCHANGED <<is_recording, session_start_time, stream_info, inlets>>
        /\ last' = [op |-> "setup_bridge", raised |-> FALSE,
                    outcome |-> IF created THEN r.outcome ELSE "no_recorder"]
        /\ UNCHANGED <<recorded_data, clock, file, lsl_data, review, emotibit, capture, project>>

\* ScreenRecorder.start_recording on a new ScreenRecorder.  on_recording_started:
\* the callback given to the constructor (None: none given).  startRaises: no
\* codec is found or the video writer does not open.
ScreenStartRecording(on_recording_started, lslAvailable, startRaises) ==
    IF startRaises
    THEN [is_recording |-> TRUE, lsl_start_time |-> None,
          sync_sent |-> FALSE, capture_thread |-> FALSE]
    ELSE [is_recording |-> TRUE,
          lsl_start_time |-> IF lslAvailable THEN Some(clock) ELSE None,
          sync_sent |-> on_recording_started # None,    \* _send_sync(sync_event)
          capture_thread |-> TRUE]

\* EmbeddedWebpageSessionWindow._setup_screen_recording.  recordingAvailable:
\* RECORDING_AVAILABLE.  fault: "init" (ScreenRecorder(...) raises), "start"
\* (start_recording raises) or "none".
SetupScreenRecording(recordingAvailable, fault) ==
    /\ window.pc = "setup_screen_recording"
    /\ ~recordingAvailable => fault = "none"
    /\ window' = [window EXCEPT
                     !.pc = "running",
                     !.screen_recorder =
                         IF ~recordingAvailable \/ fault = "init" THEN None
                         \* ScreenRecorder(session_id=, config=, output_dir=, window=self):
                         \* no on_recording_started is given
                         ELSE Some(ScreenStartRecording(None, window.lsl_available,
                                                        fault = "start"))]
    /\ last' = [op |-> "setup_screen_recording", raised |-> FALSE,
                started |-> recordingAvailable /\ fault = "none"]
    /\ UNCHANGED <<recorder, recorded_data, clock, file, lsl_data, review, emotibit, capture, project>>

\* _handle_bridge_event of an event that is not session_end:
\* self.lsl_streamer.push_event(event_data).
HandleBridgeEvent ==
    /\ window.pc = "running" /\ window.lsl_streamer
    /\ Push(BridgeStream, [kind |-> "str", values |-> <<ClickEventText>>])

\* _safe_record_lsl_sample, the slot of lsl_timer.
SafeRecordLslSample(offsets) ==
    /\ window.lsl_timer
    /\ window.lsl_recorder /\ is_recording
    /\ RecordSample([i \in 1..Len(inlets) |-> "ok"], offsets)

\* The session id written into a record file.
SessionId == "session-1"

\* minimal_lsl_data of _save_session_data, as json.dump writes it; error is
\* str(e) of the exception save_to_file raised.
MinimalRecord(saveFault) ==
    [complete |-> TRUE,
     session_id |-> SessionId,
     stream_info |-> stream_info,
     session_start_time |-> OptToText(session_start_time),
     total_samples |-> NumToText(0),
     lsl_samples |-> <<>>,
     error |-> saveFault]

\* The except branch of _save_session_data with nothing in it.
DegradedSaveSkipped(before, saveFault, minimalFault) == before

\* The except branch of _save_session_data: the record file after the attempt
\* to write minimal_lsl_data over `before`, the file as the failed save_to_file
\* left it.  minimalFault: "open" (open raises), "write" (json.dump fails
\* partway) or "none".
DegradedSave(before, saveFault, minimalFault) ==
    CASE minimalFault = "none" -> Some(MinimalRecord(saveFault))
      [] minimalFault = "open" -> before
      [] minimalFault = "write" -> Some(PartialFile)

\* The record file after _save_session_data.
SavedRecordFile(saveFault, minimalFault) ==
    IF ~window.lsl_recorder THEN file            \* "LSL recorder is None, cannot save"
    ELSE CASE saveFault = "none" -> Some(DumpRecord)
           [] saveFault = "open" -> DegradedSave(file, saveFault, minimalFault)
           [] saveFault = "write" -> DegradedSave(Some(PartialFile), saveFault, minimalFault)

\* EmbeddedWebpageSessionWindow._end_session with the _save_session_data it
\* calls, run on the window w (the session window as its caller left it).
\* saveFault: how save_to_file fails; minimalFault: how the write of the
\* minimal file fails; metaFault: the write of the session metadata raises.
EndSessionFrom(w, saveFault, minimalFault, metaFault) ==
    /\ w.pc = "running"
    /\ (~w.lsl_recorder \/ w.session_ending) =>
           saveFault = "none" /\ minimalFault = "none"
    /\ w.session_ending => ~metaFault
    /\ saveFault = "none" => minimalFault = "none"
    /\ IF w.session_ending
       THEN /\ window' = w
            /\ UNCHANGED <<is_recording, inlets, file>>
            /\ last' = [op |-> "end_session", ran |-> FALSE, raised |-> FALSE]
       ELSE /\ window' = [w EXCEPT
                             !.session_ending = TRUE,
                             !.screen_recorder = None,
                             !.lsl_timer = FALSE,
                             !.lsl_streamer = FALSE,
                             !.lsl_mouse_streamer = FALSE,
                             \* self.lsl_recorder = None, not reached when the
                             \* metadata write raises
                             !.lsl_recorder = w.lsl_recorder /\ metaFault,
                             !.teardowns = @ + 1,
                             \* self.session_ended.emit(...) and
                             \* QTimer.singleShot(200, self.close), not reached
                             \* when the metadata write raises
                             !.emitted = IF metaFault THEN @ ELSE @ + 1,
                             !.pending_close = IF metaFault THEN @ ELSE TRUE]
            \* self.lsl_recorder.stop_recording()
            /\ is_recording' = IF w.lsl_recorder THEN FALSE ELSE is_recording
            /\ inlets' = IF w.lsl_recorder THEN <<>> ELSE inlets
            /\ file' = SavedRecordFile(saveFault, minimalFault)
            /\ last' = [op |-> "end_session", ran |-> TRUE,
                        had_recorder |-> w.lsl_recorder,
                        save_fault |-> saveFault, minimal_fault |-> minimalFault,
                        meta_fault |-> metaFault, raised |-> metaFault]
    /\ UNCHANGED <<session_start_time, stream_info, recorded_data, clock, lsl_data,
                   review, emotibit, capture, project>>

\* end_session_button.clicked: _end_session called from the End Session button.
EndSession(saveFault, minimalFault, metaFault) ==
    /\ ~window.closed
    /\ EndSessionFrom(window, saveFault, minimalFault, metaFault)

\* _handle_bridge_event of a session_end event: the end of the session is
\* scheduled, and the handler returns before the push to the event stream.
HandleSessionEnd ==
    /\ window.pc = "running" /\ ~window.closed
    /\ window.pending_end < MaxPending
    /\ window' = [window EXCEPT !.pending_end = @ + 1]
    /\ last' = [op |-> "handle_bridge_event", type |-> "session_end",
                pushed |-> FALSE, raised |-> FALSE]
    /\ UNCHANGED <<recorder, recorded_data, clock, file, lsl_data, review, emotibit, capture, project>>

\* The call QTimer.singleShot(500, self._end_session) scheduled fires.
DelayedEndSession(saveFault, minimalFault, metaFault) ==
    /\ window.pending_end > 0
    /\ EndSessionFrom([window EXCEPT !.pending_end = @ - 1],
                      saveFault, minimalFault, metaFault)

\* closeEvent: the user closes the window, or the self.close scheduled by
\* _end_session fires.  event.accept() is not reached when _end_session raises.
CloseEvent(saveFault, minimalFault, metaFault) ==
    /\ ~window.closed \/ window.pending_close
    /\ EndSessionFrom([window EXCEPT !.pending_close = FALSE,
                                     !.closed = @ \/ ~metaFault],
                      saveFault, minimalFault, metaFault)

\* ------------------------------------------------------ mouse coordinates
\* float(n) of an int n.
Float(n) == [num |-> n, den |-> 1]

\* a / b of two floats, b > 0.
FloatDiv(a, b) == [num |-> a.num * b.den, den |-> a.den * b.num]

\* a < b of two floats.
FloatLess(a, b) == a.num * b.den < b.num * a.den

\* Python's max(a, b) and min(a, b): the first argument unless the second is
\* strictly greater (max) or strictly smaller (min).
FloatMax(a, b) == IF FloatLess(a, b) THEN b ELSE a
FloatMin(a, b) == IF FloatLess(b, a) THEN b ELSE a

\* The reference size _normalize_mouse_coordinates divides by: the configured
\* target_window_size when it is set, else the geometry of the web view.
ReferenceSize(w, geometry) ==
    IF w.target_window_size # None /\ w.target_window_size[1] # <<>>
    THEN <<Float(w.target_window_size[1][1]), Float(w.target_window_size[1][2])>>
    ELSE <<Float(geometry[1]), Float(geometry[2])>>

\* The division without the clamp to [0, 1].
ScaledUnclamped(v, ref) == FloatDiv(Float(v), ref)

\* norm = float(v) / ref; norm = max(0.0, min(1.0, norm))
Scaled(v, ref) == FloatMax(Float(0), FloatMin(Float(1), FloatDiv(Float(v), ref)))

\* As _normalize_mouse_coordinates, but an invalid reference is replaced by a
\* reference of 1 x 1 instead of being given up on.
NormalizeMouseCoordinatesUnitReference(w, geometry, x, y) ==
    LET ref == ReferenceSize(w, geometry)
    IN  IF ~w.normalize_mouse_coordinates
        THEN <<Float(x), Float(y)>>
        ELSE IF FloatLess(Float(0), ref[1]) /\ FloatLess(Float(0), ref[2])
        THEN <<Scaled(x, ref[1]), Scaled(y, ref[2])>>
        ELSE <<Scaled(x, Float(1)), Scaled(y, Float(1))>>

\* EmbeddedWebpageSessionWindow._normalize_mouse_coordinates(x, y) on the
\* window w whose web view has the given geometry (width, height).
NormalizeMouseCoordinates(w, geometry, x, y) ==
    LET ref == ReferenceSize(w, geometry)
    IN  IF ~w.normalize_mouse_coordinates
        THEN <<Float(x), Float(y)>>
        ELSE IF FloatLess(Float(0), ref[1]) /\ FloatLess(Float(0), ref[2])
        THEN <<Scaled(x, ref[1]), Scaled(y, ref[2])>>
        \* "Invalid window size for normalization ..., using absolute coordinates"
        ELSE <<Float(x), Float(y)>>

\* The code of an event type on the mouse stream.
EventTypeCode(event_type) ==
    CASE event_type = "mouse_press" -> 1
      [] event_type = "mouse_release" -> 2
      [] event_type = "mouse_move" -> 3
      [] event_type = "mouse_scroll" -> 4
      [] OTHER -> 0

\* The sample LSLMouseTrackingStreamer.push_tracking_data pushes for a
\* tracking point: [x, y, event_type].
TrackingSample(tracking_point) ==
    [kind |-> "float",
     values |-> <<tracking_point.mouse_position[1], tracking_point.mouse_position[2],
                  Float(EventTypeCode(tracking_point.event_type))>>]

\* What _collect_tracking_data and the mouse handlers of the web view do with
\* a cursor at (abs_x, abs_y): normalize, build the tracking point, and push it
\* when there is a mouse streamer.  event_type "" is the timer's position sample.
TrackMouse(op, event_type, geometry, abs_x, abs_y) ==
    LET norm == NormalizeMouseCoordinates(window, geometry, abs_x, abs_y)
        tracking_point == [mouse_position |-> norm,
                           absolute_position |-> <<abs_x, abs_y>>,
                           event_type |-> event_type]
    IN  /\ inlets' = IF window.lsl_mouse_streamer
                      THEN Delivered(inlets, MouseStream, TrackingSample(tracking_point))
                      ELSE inlets
        /\ last' = [op |-> op, raised |-> FALSE,
                    \* no statement of _normalize_mouse_coordinates raises
                    normalize_raised |-> FALSE,
                    geometry |-> geometry,
                    reference |-> ReferenceSize(window, geometry),
                    tracking_point |-> tracking_point,
                    pushed |-> IF window.lsl_mouse_streamer
                               THEN Some(TrackingSample(tracking_point)) ELSE None]
        /\ UNCHANGED <<is_recording, session_start_time, stream_info, recorded_data,
                       clock, file, lsl_data, windows, emotibit, capture, project>>

\* EmbeddedWebpageSessionWindow._collect_tracking_data, the slot of tracking_timer.
CollectTrackingData(geometry, abs_x, abs_y) ==
    /\ window.pc = "running"
    /\ TrackMouse("collect_tracking_data", "", geometry, abs_x, abs_y)

\* _on_mouse_press, _on_mouse_release, _on_mouse_move and _on_wheel_event.
OnMousePress(geometry, abs_x, abs_y) ==
    /\ window.pc = "running"
    /\ TrackMouse("on_mouse_press", "mouse_press", geometry, abs_x, abs_y)
OnMouseRelease(geometry, abs_x, abs_y) ==
    /\ window.pc = "running"
    /\ TrackMouse("on_mouse_release", "mouse_release", geometry, abs_x, abs_y)
OnMouseMove(geometry, abs_x, abs_y) ==
    /\ window.pc = "running"
    /\ TrackMouse("on_mouse_move", "mouse_move", geometry, abs_x, abs_y)
OnWheelEvent(geometry, abs_x, abs_y) ==
    /\ window.pc = "running"
    /\ TrackMouse("on_wheel_event", "mouse_scroll", geometry, abs_x, abs_y)

\* ------------------------------------------------------------ the overlay
\* a * b and a + b of two floats.
FloatMul(a, b) == [num |-> a.num * b.num, den |-> a.den * b.den]
FloatAdd(a, b) == [num |-> a.num * b.den + b.num * a.den, den |-> a.den * b.den]

\* "0.0 <= x <= 1.0 and 0.0 <= y <= 1.0", but with the upper bounds strict.
IsNormalizedStrict(x, y) ==
    /\ ~FloatLess(x, Float(0)) /\ FloatLess(x, Float(1))
    /\ ~FloatLess(y, Float(0)) /\ FloatLess(y, Float(1))

\* is_normalized = (0.0 <= x <= 1.0 and 0.0 <= y <= 1.0)
IsNormalized(x, y) ==
    /\ ~FloatLess(x, Float(0)) /\ ~FloatLess(Float(1), x)
    /\ ~FloatLess(y, Float(0)) /\ ~FloatLess(Float(1), y)

\* Python truthiness of an Optional[float]: None and 0.0 are falsy.
FloatTruthy(opt) == opt # None /\ opt[1].num # 0

\* (view_x, view_y) of _update_overlay for mouse_pos = (x, y).  video_original:
\* (video_original_width, video_original_height), each None until a frame was
\* read; scale: video_scale_factor; offset: (video_offset_x, video_offset_y).
ViewPosition(mouse_pos, video_original, scale, offset) ==
    LET x == mouse_pos[1]
        y == mouse_pos[2]
    IN  IF FloatTruthy(video_original[1]) /\ FloatTruthy(video_original[2])
        THEN IF IsNormalized(x, y)
             THEN LET video_x == FloatMul(x, video_original[1][1])
                      video_y == FloatMul(y, video_original[2][1])
                  IN  <<FloatAdd(FloatMul(video_x, scale), offset[1]),
                        FloatAdd(FloatMul(video_y, scale), offset[2])>>
             ELSE <<FloatAdd(FloatMul(x, scale), offset[1]),
                    FloatAdd(FloatMul(y, scale), offset[2])>>
        ELSE <<x, y>>

\* SessionReviewWindow._update_overlay drawing the cursor for the position the
\* session window just captured: mouse_pos is the pair as
\* _normalize_mouse_coordinates returned it.  frame: the (width, height) of the
\* video's first frame, None without a video.
DrawCursor(frame, scale, offset) ==
    LET video_original == IF frame = None THEN <<None, None>>
                          ELSE <<Some(Float(frame[1][1])), Some(Float(frame[1][2]))>>
        mouse_pos == last.tracking_point.mouse_position
    IN  /\ review.pc = "ready"
        \* the tracking handlers, by the name `last` gives them
        /\ last.op \in {"collect_tracking_data", "on_mouse_press", "on_mouse_release",
                       "on_mouse_move", "on_wheel_event"}
        /\ last' = [op |-> "update_overlay", raised |-> FALSE,
                    absolute_position |-> last.tracking_point.absolute_position,
                    reference |-> last.reference,
                    mouse_pos |-> mouse_pos,
                    \* is_normalized, computed only when a video frame was read
                    is_normalized |-> IF frame = None THEN None
                                      ELSE Some(IsNormalized(mouse_pos[1], mouse_pos[2])),
                    video_original |-> video_original,
                    scale |-> scale, offset |-> offset,
                    view |-> ViewPosition(mouse_pos, video_original, scale, offset)]
        /\ UNCHANGED <<recorder, recorded_data, clock, file, lsl_data, windows, emotibit, capture, project>>

\* ------------------------------------------------- EmotiBitBrainflowStreamer
\* stop(timeout: float = 5.0): the default join timeout, in seconds.
JoinTimeout == 5

\* The frame of the streamer's steps.
StreamerFrame == UNCHANGED <<recorder, recorded_data, clock, file, lsl_data, windows, capture, project>>

\* Whether thread k is alive: started and not yet returned from _run.
Alive(e, k) == k \in 1..Len(e.threads) /\ e.threads[k].pc # "done"

\* EmotiBitBrainflowStreamer.start.
StreamerStart ==
    /\ emotibit.main = "idle"
    /\ IF emotibit.started
       THEN /\ UNCHANGED emotibit
            /\ last' = [op |-> "start", created |-> FALSE, raised |-> FALSE]
       ELSE /\ Len(emotibit.threads) < MaxThreads
            /\ emotibit' = [emotibit EXCEPT
                   !.stop_event = FALSE,                        \* self._stop_event.clear()
                   !.threads = Append(@, [pc |-> "start", last_read |-> "none",
                                          released |-> FALSE]),
                   !.thread = Some(Len(emotibit.threads) + 1),
                   !.started = TRUE]
            /\ last' = [op |-> "start", created |-> TRUE, raised |-> FALSE]
    /\ StreamerFrame

\* EmotiBitBrainflowStreamer.stop up to self._thread.join(timeout).
StreamerStop ==
    /\ emotibit.main = "idle"
    /\ IF ~emotibit.started
       THEN /\ UNCHANGED emotibit
            /\ last' = [op |-> "stop", ran |-> FALSE, raised |-> FALSE]
       ELSE /\ emotibit' = [emotibit EXCEPT !.stop_event = TRUE,         \* self._stop_event.set()
                                            !.main = "join", !.waited = 0]
            /\ last' = [op |-> "stop_join", raised |-> FALSE]
    /\ StreamerFrame

\* A second passes while stop() waits in join for a thread that is alive.
JoinWait ==
    /\ emotibit.main = "join"
    /\ Alive(emotibit, emotibit.thread[1])
    /\ emotibit.waited < JoinTimeout
    /\ emotibit' = [emotibit EXCEPT !.waited = @ + 1]
    /\ last' = [op |-> "join_wait", raised |-> FALSE]
    /\ StreamerFrame

\* stop() from the return of join to its end: join returns when the thread has
\* ended or the timeout has passed; then the cleanup, whose exceptions are
\* swallowed.  cleanupRaises: stop_stream or release_session raises.
StreamerStopReturn(cleanupRaises) ==
    LET k == emotibit.thread[1]
    IN  /\ emotibit.main = "join"
        /\ ~Alive(emotibit, k) \/ emotibit.waited = JoinTimeout
        /\ cleanupRaises => emotibit.board # None
        /\ emotibit' = [emotibit EXCEPT
               !.threads = IF emotibit.board # None /\ ~cleanupRaises
                           THEN [@ EXCEPT ![emotibit.board[1]].released = TRUE]
                           ELSE @,
               !.started = FALSE,
               !.main = "idle"]
        /\ last' = [op |-> "stop", ran |-> TRUE, raised |-> FALSE,
                    thread |-> k, waited |-> emotibit.waited,
                    exited |-> ~Alive(emotibit, k),
                    cleanup_raised |-> cleanupRaises]
        /\ StreamerFrame

\* The except and finally clauses of _run for thread k: the board's session is
\* released, self._board and self._outlet are cleared, the thread ends.
RunEnded(e, k) ==
    [e EXCEPT !.threads[k].pc = "done", !.threads[k].released = TRUE,
              !.board = None, !.outlet = None]

\* _run of thread k up to self._board = board.
RunBegin(k) ==
    /\ k \in 1..Len(emotibit.threads) /\ emotibit.threads[k].pc = "start"
    /\ emotibit' = [emotibit EXCEPT !.threads[k].pc = "setup", !.board = Some(k)]
    /\ last' = [op |-> "run_begin", thread |-> k, raised |-> FALSE]
    /\ StreamerFrame

\* _run of thread k from prepare_session to the creation of the outlet.
\* raises: a call of the board or of pylsl raises.
RunSetup(k, raises) ==
    /\ k \in 1..Len(emotibit.threads) /\ emotibit.threads[k].pc = "setup"
    /\ emotibit' = IF raises THEN RunEnded(emotibit, k)
                   ELSE [emotibit EXCEPT !.threads[k].pc = "loop", !.outlet = Some(k)]
    /\ last' = [op |-> "run_setup", thread |-> k, raised |-> FALSE]
    /\ StreamerFrame

\* One turn of "while not self._stop_event.is_set()" in thread k.  read: what
\* get_board_data returns, "none" (no data yet) or "data" (samples, which the
\* thread pushes to its outlet).
RunLoop(k, read) ==
    /\ k \in 1..Len(emotibit.threads) /\ emotibit.threads[k].pc = "loop"
    /\ emotibit' = IF emotibit.stop_event THEN RunEnded(emotibit, k)
                   ELSE [emotibit EXCEPT !.threads[k].last_read = read]
    /\ last' = [op |-> "run_loop", thread |-> k, raised |-> FALSE,
                pushed |-> ~emotibit.stop_event /\ read = "data"]
    /\ StreamerFrame

\* get_board_data raises in the loop of thread k (the device is lost, or its
\* session was released under the thread): the thread ends.
RunFault(k) ==
    /\ k \in 1..Len(emotibit.threads) /\ emotibit.threads[k].pc = "loop"
    /\ emotibit' = RunEnded(emotibit, k)
    /\ last' = [op |-> "run_fault", thread |-> k, raised |-> FALSE]
    /\ StreamerFrame

\* ------------------------------------------------------------ construction
\* LSLRecorder.__init__, no record file yet, a review window not yet loaded.
Init ==
    /\ is_recording = FALSE
    /\ session_start_time = None
    /\ inlets = <<>>
    /\ stream_info = <<>>
    /\ recorded_data = <<>>
    /\ clock = 0
    /\ file = None
    /\ lsl_data = <<>>
    /\ window = NewSessionWindow
    /\ review = NewReviewWindow
    /\ emotibit = NewStreamer
    /\ capture = NewScreenRecorder
    /\ project = NewProject
    /\ last = [op |-> "init", raised |-> FALSE]

Next ==
    \/ \E streams \in SessionResolveResults, resolveRaises \in BOOLEAN, failAt \in 0..MaxInfo :
           StartRecording(streams, None, resolveRaises, failAt)
    \/ \E stream \in AllStreams : \E values \in Payloads(stream) : Push(stream, values)
    \/ ClockAdvance
    \/ \E faults \in [1..Len(inlets) -> {"ok", "pull", "time_correction"}],
          offsets \in [1..Len(inlets) -> {-1, 0}] :
           RecordSample(faults, offsets)
    \/ \E closeRaises \in BOOLEAN : StopRecording(closeRaises)

\* The recorder under any sequence of calls, with the producers and the clock.
Spec == Init /\ [][Next]_vars

\* No fault is injected into a tick.
NoFaults == [i \in 1..Len(inlets) |-> "ok"]

\* One session as EmbeddedWebpageSessionWindow runs it (_setup_bridge starts one
\* recorder, the timer ticks, _end_session stops and saves), then the review
\* window loads the file.
NextSession ==
    \/ \E streams \in SessionResolveResults,
          f \in {None, Some(<< <<"b", "r", "i", "d", "g", "e">> >>)} :
           /\ stream_info = <<>>
           /\ StartRecording(streams, f, FALSE, 0)
    \/ \E stream \in AllStreams : \E values \in Payloads(stream) : Push(stream, values)
    \/ ClockAdvance
    \/ \E offsets \in [1..Len(inlets) -> {-1, 0}] : RecordSample(NoFaults, offsets)
    \/ StopRecording(FALSE)
    \/ \E ioFault \in {"none", "open", "write"} : SaveToFile(ioFault)
    \/ LoadSessionData(0, None)

SpecSession == Init /\ [][NextSession]_vars

\* start_recording over every resolve result and every filter argument.
NextFilter ==
    \/ \E streams \in ResolveResults, f \in FilterChoices :
           StartRecording(streams, f, FALSE, 0)
    \/ StopRecording(FALSE)
    \/ ClockAdvance

SpecFilter == Init /\ [][NextFilter]_vars

\* One session window: its construction (_setup_bridge, then
\* _setup_screen_recording), the events and timer ticks of the session, and
\* _end_session.
NextWindow ==
    \/ \E lslAvailable \in BOOLEAN, initFault \in {"none", "bridge_streamer", "mouse_streamer"},
          streams \in SessionResolveResults, resolveRaises \in BOOLEAN,
          failAt \in 0..MaxInfo, delivered \in BOOLEAN :
           SetupBridge(lslAvailable, initFault, streams, resolveRaises, failAt, delivered)
    \/ \E recordingAvailable \in BOOLEAN, fault \in {"none", "init", "start"} :
           SetupScreenRecording(recordingAvailable, fault)
    \/ HandleBridgeEvent
    \/ ClockAdvance
    \/ \E offsets \in [1..Len(inlets) -> {-1, 0}] : SafeRecordLslSample(offsets)
    \/ \E saveFault \in {"none", "open", "write"}, minimalFault \in {"none", "open", "write"},
          metaFault \in BOOLEAN :
           EndSession(saveFault, minimalFault, metaFault)
    \/ HandleSessionEnd
    \/ \E saveFault \in {"none", "open", "write"}, minimalFault \in {"none", "open", "write"},
          metaFault \in BOOLEAN :
           DelayedEndSession(saveFault, minimalFault, metaFault)
    \/ \E saveFault \in {"none", "open", "write"}, minimalFault \in {"none", "open", "write"},
          metaFault \in BOOLEAN :
           CloseEvent(saveFault, minimalFault, metaFault)

SpecWindow == Init /\ [][NextWindow]_vars

\* A recorded sample of a review record: stream `name`, relative time t.
ReviewSample(stream, t) ==
    [timestamp |-> 1000 + t, relative_time |-> t,
     data |-> CHOOSE d \in Payloads(stream) : TRUE,
     stream_index |-> 0, stream_info |-> InfoOf(stream),
     clock_offset |-> 0, local_time_when_recorded |-> 1000 + t]

\* The records the review window is opened on: none, one event, events around
\* mouse samples, a mouse sample before the first event, a sample stamped
\* before the session start.
ReviewRecordings ==
    {<<>>,
     <<ReviewSample(BridgeStream, 20)>>,
     <<ReviewSample(BridgeStream, 20), ReviewSample(MouseStream, 72),
       ReviewSample(BridgeStream, 120)>>,
     <<ReviewSample(MouseStream, 0), ReviewSample(BridgeStream, 68),
       ReviewSample(MouseStream, 100)>>,
     <<ReviewSample(BridgeStream, -12), ReviewSample(MouseStream, 50)>>}

\* The record file save_to_file writes for recorded_data = data.
RecordFile(data) ==
    [complete |-> TRUE, stream_info |-> <<>>,
     session_start_time |-> OptToText(Some(1000)),
     total_samples |-> NumToText(Len(data)),
     lsl_samples |-> [k \in 1..Len(data) |-> DumpSample(ParsedSample(data[k]))]]

\* What cv2 reports for the video file, when one opens: fps (0: unknown) and
\* frame count.
Videos == {None, Some([fps |-> 30, frame_count |-> 4]), Some([fps |-> 0, frame_count |-> 0]),
           Some([fps |-> 10, frame_count |-> 2])}

\* A review window about to be constructed on a session's record file.
InitReview ==
    /\ is_recording = FALSE
    /\ session_start_time = None
    /\ inlets = <<>>
    /\ stream_info = <<>>
    /\ recorded_data = <<>>
    /\ clock = 0
    /\ file \in {None} \cup {Some(RecordFile(data)) : data \in ReviewRecordings}
    /\ lsl_data = <<>>
    /\ window = NewSessionWindow
    /\ review = NewReviewWindow
    /\ emotibit = NewStreamer
    /\ capture = NewScreenRecorder
    /\ project = NewProject
    /\ last = [op |-> "init", raised |-> FALSE]

\* The review window: the load of its constructor, then the user's and the
\* playback timer's events.
NextReview ==
    \/ \E sessionDuration \in {0, 100}, video \in Videos :
           /\ review.pc = "load"
           /\ LoadSessionData(sessionDuration, video)
    \/ SliderPressed
    \/ SliderReleased
    \/ \E value \in 0..SliderMaximum : OnTimelineChanged(value)
    \/ \E k \in 1..Len(lsl_data) : OnEventSelected(k)
    \/ TogglePlayback
    \/ PlayFromBeginning
    \/ \E speed \in SpeedQuarters : UpdatePlayback(speed)

SpecReview == InitReview /\ [][NextReview]_vars

\* The review window with a user who leaves a running playback alone: the
\* slider, the events table and the buttons are used only while nothing plays,
\* and Play is not pressed while the slider is held.  The speed of speed_combo
\* may change between two ticks.
NextPlayback ==
    \/ \E sessionDuration \in {0, 100}, video \in Videos :
           /\ review.pc = "load"
           /\ LoadSessionData(sessionDuration, video)
    \/ /\ ~review.is_playing
       /\ SliderPressed
    \/ /\ ~review.is_playing
       /\ SliderReleased
    \/ \E value \in 0..SliderMaximum :
           /\ ~review.is_playing
           /\ OnTimelineChanged(value)
    \/ \E k \in 1..Len(lsl_data) :
           /\ ~review.is_playing
           /\ OnEventSelected(k)
    \/ /\ ~review.is_playing /\ ~review.seeking
       /\ TogglePlayback
    \/ /\ ~review.is_playing /\ ~review.seeking
       /\ PlayFromBeginning
    \/ \E speed \in SpeedQuarters : UpdatePlayback(speed)

\* playback_timer fires every 100 ms for as long as it is started.
SpecPlayback ==
    /\ InitReview /\ [][NextPlayback]_vars
    /\ WF_vars(\E speed \in SpeedQuarters : UpdatePlayback(speed))

\* A sample of the mouse stream at relative time t with position (x, x + 100),
\* as the review window loads it from the record file.
LoadedMouseSample(t, x) ==
    LoadSample(DumpSample(ParsedSample(
        [ReviewSample(MouseStream, t) EXCEPT
            !.data = [kind |-> "float", values |-> <<x, x + 100, 0>>]])))

\* The samples the queried records are made of: mouse samples before, at and
\* after the session start, two of them at the same time, and a bridge event.
QuerySamples ==
    {LoadedMouseSample(-10, 1), LoadedMouseSample(0, 2), LoadedMouseSample(10, 3),
     LoadedMouseSample(10, 5), LoadedMouseSample(30, 4),
     LoadSample(DumpSample(ParsedSample(ReviewSample(BridgeStream, 20))))}

\* The loaded records queried: every sequence of at most MaxTrack samples.
QueryRecords == UNION {[1..n -> QuerySamples] : n \in 0..MaxTrack}

\* A review window loaded with a record.
InitQuery ==
    /\ is_recording = FALSE
    /\ session_start_time = None
    /\ inlets = <<>>
    /\ stream_info = <<>>
    /\ recorded_data = <<>>
    /\ clock = 0
    /\ file = None
    /\ lsl_data \in QueryRecords
    /\ window = NewSessionWindow
    /\ review = [NewReviewWindow EXCEPT !.pc = "ready",
                                        !.session_duration = SessionDuration(lsl_data, 0)]
    /\ emotibit = NewStreamer
    /\ capture = NewScreenRecorder
    /\ project = NewProject
    /\ last = [op |-> "init", raised |-> FALSE]

\* The two queries of the overlay, at any time and with any trail length.
NextQuery ==
    \/ \E time \in {-10, 0, 10, 20, 30} : GetMousePositionAtTime(time)
    \/ \E time \in {-10, 0, 10, 20, 30}, duration \in {0, 10, 20} : GetMouseTrail(time, duration)

SpecQuery == InitQuery /\ [][NextQuery]_vars

\* ------------------------------------------------------------ ScreenRecorder
\* Whether capture thread k is alive: started and not yet out of _capture_loop.
CaptureAlive(c, k) == k \in 1..Len(c.threads) /\ c.threads[k].pc # "done"

\* ScreenRecorder.start_recording.  fault = "codec": no codec opens a test
\* writer, RuntimeError; "writer": the video writer does not open,
\* RuntimeError; "none": the capture thread is started.
ScreenRecorderStart(fault) ==
    /\ capture.main = "idle"
    /\ capture.is_recording => fault = "none"
    /\ IF capture.is_recording
       THEN /\ UNCHANGED capture
            /\ last' = [op |-> "screen_start", outcome |-> "already_recording",
                        raised |-> FALSE]
       ELSE /\ fault = "none" => Len(capture.threads) < MaxThreads
            /\ capture' =
                 LET c == [capture EXCEPT !.is_recording = TRUE, !.stop_event = FALSE]
                 IN  CASE fault = "codec" -> c
                       [] fault = "writer" -> [c EXCEPT !.video_writer = Some("closed")]
                       [] OTHER ->
                            [c EXCEPT !.video_writer = Some("open"),
                                      !.threads = Append(@, [pc |-> "check"]),
                                      !.capture_thread = Some(Len(capture.threads) + 1)]
            /\ last' = [op |-> "screen_start",
                        outcome |-> IF fault = "none" THEN "started" ELSE "error",
                        raised |-> fault # "none"]
    /\ UNCHANGED <<recorder, recorded_data, clock, file, lsl_data, windows,
                       emotibit, project>>

\* ScreenRecorder.stop_recording up to capture_thread.join(timeout=2.0), or
\* the whole of it on a recorder that is not recording.
ScreenRecorderStop ==
    /\ capture.main = "idle"
    /\ IF ~capture.is_recording
       THEN /\ UNCHANGED capture
            /\ last' = [op |-> "screen_stop", ran |-> FALSE, timed_out |-> FALSE,
                        raised |-> FALSE]
       ELSE /\ capture' = [capture EXCEPT !.is_recording = FALSE, !.stop_event = TRUE,
                                          !.main = "join"]
            /\ last' = [op |-> "screen_stop_join", raised |-> FALSE]
    /\ UNCHANGED <<recorder, recorded_data, clock, file, lsl_data, windows,
                       emotibit, project>>

\* The rest of stop_recording: the join returns, because the capture thread
\* has exited (or there is none) or because the 2 seconds are over
\* (timedOut); the video writer is released and forgotten.
ScreenRecorderStopReturn(timedOut) ==
    /\ capture.main = "join"
    /\ LET alive == capture.capture_thread # None
                    /\ CaptureAlive(capture, capture.capture_thread[1])
       IN  timedOut = alive
    /\ capture' = [capture EXCEPT !.main = "idle", !.video_writer = None]
    /\ last' = [op |-> "screen_stop", ran |-> TRUE, timed_out |-> timedOut,
                raised |-> FALSE]
    /\ UNCHANGED <<recorder, recorded_data, clock, file, lsl_data, windows,
                       emotibit, project>>

\* _capture_loop of thread k, "while not self.stop_event.is_set()".
CaptureLoopTest(k) ==
    /\ k \in 1..Len(capture.threads) /\ capture.threads[k].pc = "check"
    /\ capture' = [capture EXCEPT !.threads[k].pc =
                       IF capture.stop_event THEN "done" ELSE "grab"]
    /\ last' = [op |-> "capture_loop_test", thread |-> k, raised |-> FALSE]
    /\ UNCHANGED <<recorder, recorded_data, clock, file, lsl_data, windows,
                       emotibit, project>>

\* _capture_loop of thread k: the frame is grabbed and converted, then
\* "if self.video_writer and self.video_writer.isOpened()".
CaptureGrab(k) ==
    /\ k \in 1..Len(capture.threads) /\ capture.threads[k].pc = "grab"
    /\ capture' = [capture EXCEPT !.threads[k].pc =
                       IF capture.video_writer = Some("open") THEN "write" ELSE "check"]
    /\ last' = [op |-> "capture_grab", thread |-> k, raised |-> FALSE]
    /\ UNCHANGED <<recorder, recorded_data, clock, file, lsl_data, windows,
                       emotibit, project>>

\* _capture_loop of thread k: self.video_writer.write(img_bgr).  On a writer
\* released or forgotten since the test nothing is written (the
\* AttributeError on None is caught by the loop's except).
CaptureWrite(k) ==
    LET written == capture.video_writer = Some("open")
    IN  /\ k \in 1..Len(capture.threads) /\ capture.threads[k].pc = "write"
        /\ capture' = [capture EXCEPT
                          !.threads[k].pc = "check",
                          !.stopped_write = @ \/ (written /\ ~capture.is_recording
                                                          /\ capture.main = "idle")]
        /\ last' = [op |-> "capture_write", thread |-> k, written |-> written,
                    raised |-> FALSE]
        /\ UNCHANGED <<recorder, recorded_data, clock, file, lsl_data, windows,
                       emotibit, project>>

\* ------------------------------------------------------------ ProjectManager
\* now.strftime("%Y%m%d_%H%M%S_%f") at the n-th call of create_session: the
\* clock has moved on, so the ids differ.
SessionIdOf(n) == "20240101_120000_00000" \o <<"1", "2", "3", "4">>[n]

\* open(path, 'w') and json.dump: the file at root/session/name holds content.
Written(files, root, session, name, content) ==
    {f \in files : ~(f.root = root /\ f.session = session /\ f.name = name)}
        \cup {[root |-> root, session |-> session, name |-> name, content |-> content]}

\* The content of the file at root/session/name, None when there is none.
ReadFile(files, root, session, name) ==
    LET hits == {f \in files : f.root = root /\ f.session = session /\ f.name = name}
    IN  IF hits = {} THEN None ELSE Some((CHOOSE f \in hits : TRUE).content)

\* What the record file of session id holds once its session window saved it.
RecordOf(id) == "lsl record of " \o id

\* ProjectManager.create_session: the id is new, sessions/<id>/session.json
\* and project.json are written, project.sessions is left alone.
CreateSession ==
    LET id == SessionIdOf(project.created + 1)
    IN  /\ project.created < MaxSessions
        /\ project' = [project EXCEPT
                          !.created = @ + 1,
                          !.files = Written(Written(@, "sessions", id, "session.json",
                                                    "session"),
                                            "", "", "project.json", "project")]
        /\ last' = [op |-> "create_session", session_id |-> id, raised |-> FALSE]
        /\ UNCHANGED <<recorder, recorded_data, clock, file, lsl_data, windows,
                       emotibit, capture>>

\* ProjectManager.load_project: project.sessions is the sorted list of the
\* folders of sessions/ that hold a session.json.
LoadProject ==
    /\ project' = [project EXCEPT
                      !.sessions = {f.session : f \in {g \in project.files :
                                        g.root = "sessions" /\ g.name = "session.json"}}]
    /\ last' = [op |-> "load_project", raised |-> FALSE]
    /\ UNCHANGED <<recorder, recorded_data, clock, file, lsl_data, windows,
                       emotibit, capture>>

\* EmbeddedWebpageSessionWindow._save_session_data at the end of the session
\* id, with a recorder and no write failing: the record goes to
\* tracking_data/<id>/lsl_recorded_data.json, the metadata to sessions/<id>.json.
SaveSessionData(id) ==
    /\ \E n \in 1..project.created : id = SessionIdOf(n)
    /\ project' = [project EXCEPT
                      !.files = Written(Written(@, "tracking_data", id,
                                                "lsl_recorded_data.json", RecordOf(id)),
                                        "sessions", "", id \o ".json", "session")]
    /\ last' = [op |-> "save_session_data", session_id |-> id, raised |-> FALSE]
    /\ UNCHANGED <<recorder, recorded_data, clock, file, lsl_data, windows,
                       emotibit, capture>>

\* ProjectManager.export_session_data(project, session, export_format).
\* loaded: what _load_session_lsl_data(session, project) returns, the content
\* of sessions/<id>/lsl_recording_<id>.json, or None.
ExportSessionData(id, export_format) ==
    LET loaded == ReadFile(project.files, "sessions", id,
                           "lsl_recording_" \o id \o ".json")
        raises == export_format = "csv" /\ loaded = None     \* ValueError
    IN  /\ \E n \in 1..project.created : id = SessionIdOf(n)
        /\ project' = IF raises THEN project
                      ELSE [project EXCEPT
                               !.files = Written(@, "exports", "",
                                                 id \o "_export." \o export_format,
                                                 IF loaded = None THEN "null"
                                                 ELSE loaded[1])]
        /\ last' = [op |-> "export_session_data", session_id |-> id,
                    format |-> export_format, lsl_data |-> loaded,
                    saved |-> ReadFile(project.files, "tracking_data", id,
                                       "lsl_recorded_data.json") # None,
                    raised |-> raises]
        /\ UNCHANGED <<recorder, recorded_data, clock, file, lsl_data, windows,
                       emotibit, capture>>

\* ProjectManager.delete_session(project, session_id).
DeleteSession(id) ==
    LET listed == id \in project.sessions
    IN  /\ \E n \in 1..project.created : id = SessionIdOf(n)
        /\ project' = IF listed
                      THEN [project EXCEPT
                               !.sessions = @ \ {id},
                               \* shutil.rmtree(sessions/<id>), _save_project_metadata
                               !.files = Written({f \in @ : ~(f.root = "sessions"
                                                              /\ f.session = id)},
                                                 "", "", "project.json", "project")]
                      ELSE project
        /\ last' = [op |-> "delete_session", session_id |-> id,
                    existed |-> ReadFile(project.files, "sessions", id,
                                         "session.json") # None,
                    result |-> listed, raised |-> FALSE]
        /\ UNCHANGED <<recorder, recorded_data, clock, file, lsl_data, windows,
                       emotibit, capture>>

\* A running session window with any configuration of the normalization: the
\* window_size of the project's embedded_webpage_config (none, or a width and a
\* height that nothing validates) and its normalize_mouse_coordinates flag.
InitTracking ==
    /\ is_recording = FALSE
    /\ session_start_time = None
    /\ inlets = <<>>
    /\ stream_info = <<>>
    /\ recorded_data = <<>>
    /\ clock = 0
    /\ file = None
    /\ lsl_data = <<>>
    /\ \E size \in {None} \cup {Some(<<w, h>>) : w \in {-2, 0, 4}, h \in {0, 2}},
          normalize \in BOOLEAN, streamer \in BOOLEAN :
           window = [NewSessionWindow EXCEPT !.pc = "running",
                                             !.lsl_available = streamer,
                                             !.lsl_streamer = streamer,
                                             !.lsl_mouse_streamer = streamer,
                                             !.lsl_recorder = streamer,
                                             !.target_window_size = size,
                                             !.normalize_mouse_coordinates = normalize]
    /\ review = NewReviewWindow
    /\ emotibit = NewStreamer
    /\ capture = NewScreenRecorder
    /\ project = NewProject
    /\ last = [op |-> "init", raised |-> FALSE]

\* The web view's geometry and the cursor positions relative to it: inside,
\* on the edges, left of and above it (negative), right of and below it.
NextTracking ==
    \/ \E geometry \in {<<0, 0>>, <<4, 0>>, <<4, 2>>}, abs_x \in {-3, 0, 1, 4, 6},
          abs_y \in {-1, 0, 1, 2, 5} : CollectTrackingData(geometry, abs_x, abs_y)
    \/ \E geometry \in {<<4, 2>>}, abs_x \in {-3, 1}, abs_y \in {1, 5} :
           OnMousePress(geometry, abs_x, abs_y)
    \/ \E geometry \in {<<4, 2>>}, abs_x \in {-3, 1}, abs_y \in {1, 5} :
           OnMouseRelease(geometry, abs_x, abs_y)
    \/ \E geometry \in {<<4, 2>>}, abs_x \in {-3, 1}, abs_y \in {1, 5} :
           OnMouseMove(geometry, abs_x, abs_y)
    \/ \E geometry \in {<<4, 2>>}, abs_x \in {-3, 1}, abs_y \in {1, 5} :
           OnWheelEvent(geometry, abs_x, abs_y)

SpecTracking == InitTracking /\ [][NextTracking]_vars

\* A session window that captures positions and the review window that draws
\* them, over a video of the reference's size or of another size, or over none.
InitOverlay ==
    /\ is_recording = FALSE
    /\ session_start_time = None
    /\ inlets = <<>>
    /\ stream_info = <<>>
    /\ recorded_data = <<>>
    /\ clock = 0
    /\ file = None
    /\ lsl_data = <<>>
    /\ \E size \in {None, Some(<<4, 2>>), Some(<<0, 2>>)}, normalize \in BOOLEAN :
           window = [NewSessionWindow EXCEPT !.pc = "running",
                                             !.target_window_size = size,
                                             !.normalize_mouse_coordinates = normalize]
    /\ review = [NewReviewWindow EXCEPT !.pc = "ready"]
    /\ emotibit = NewStreamer
    /\ capture = NewScreenRecorder
    /\ project = NewProject
    /\ last = [op |-> "init", raised |-> FALSE]

NextOverlay ==
    \/ \E geometry \in {<<4, 2>>, <<3, 3>>}, abs_x \in {-3, 0, 1, 3, 4, 6},
          abs_y \in {0, 1, 2, 3} : CollectTrackingData(geometry, abs_x, abs_y)
    \/ \E frame \in {None, Some(<<4, 2>>), Some(<<3, 3>>)},
          scale \in {Float(1), [num |-> 1, den |-> 2]},
          offset \in {<<Float(0), Float(0)>>, <<Float(3), Float(1)>>} :
           DrawCursor(frame, scale, offset)

SpecOverlay == InitOverlay /\ [][NextOverlay]_vars

\* One ScreenRecorder: the caller's start_recording and stop_recording, and the
\* capture threads, interleaved in any order.
NextCapture ==
    \/ \E fault \in {"none", "codec", "writer"} : ScreenRecorderStart(fault)
    \/ ScreenRecorderStop
    \/ \E timedOut \in BOOLEAN : ScreenRecorderStopReturn(timedOut)
    \/ \E k \in 1..MaxThreads : CaptureLoopTest(k)
    \/ \E k \in 1..MaxThreads : CaptureGrab(k)
    \/ \E k \in 1..MaxThreads : CaptureWrite(k)

SpecCapture == Init /\ [][NextCapture]_vars

\* One project: sessions are created, run to their end, exported and deleted,
\* and the project is reloaded, in any order.
NextProject ==
    \/ CreateSession
    \/ LoadProject
    \/ \E n \in 1..MaxSessions : SaveSessionData(SessionIdOf(n))
    \/ \E n \in 1..MaxSessions, export_format \in {"json", "csv"} :
           ExportSessionData(SessionIdOf(n), export_format)
    \/ \E n \in 1..MaxSessions : DeleteSession(SessionIdOf(n))

SpecProject == Init /\ [][NextProject]_vars

\* One EmotiBit streamer: the caller's start() and stop(), and the worker
\* threads, interleaved in any order.
NextStreamer ==
    \/ StreamerStart
    \/ StreamerStop
    \/ JoinWait
    \/ \E cleanupRaises \in BOOLEAN : StreamerStopReturn(cleanupRaises)
    \/ \E k \in 1..MaxThreads : RunBegin(k)
    \/ \E k \in 1..MaxThreads, raises \in BOOLEAN : RunSetup(k, raises)
    \/ \E k \in 1..MaxThreads, read \in {"none", "data"} : RunLoop(k, read)
    \/ \E k \in 1..MaxThreads : RunFault(k)

SpecStreamer == Init /\ [][NextStreamer]_vars

\* The scheduling: a thread that can take its next step takes it (the device
\* calls return), and join returns.  Nothing obliges a call to raise, nor the
\* caller to call start() or stop().
SpecStreamerFair ==
    /\ Init /\ [][NextStreamer]_vars
    /\ \A k \in 1..MaxThreads :
           /\ WF_vars(RunBegin(k))
           /\ WF_vars(RunSetup(k, FALSE))
           /\ WF_vars(\E read \in {"none", "data"} : RunLoop(k, read))
    /\ WF_vars(JoinWait)
    /\ WF_vars(StreamerStopReturn(FALSE))

C2_StoppedIsTerminal ==
    [][(~is_recording /\ session_start_time # None) =>
          (~is_recording' /\ Len(inlets') <= Len(inlets))]_vars

\* C3: once session_start_time is set it keeps its value.
C3_StartTimeFixed ==
    [][session_start_time # None => session_start_time' = session_start_time]_vars

\* C4: for two samples of recorded_data with the same stream_index, the one
\* appended later has a relative_time at least that of the earlier one.
C4_MonotonicPerStream ==
    \A i, j \in 1..Len(recorded_data) :
        (i < j /\ recorded_data[i].stream_index = recorded_data[j].stream_index)
            => recorded_data[i].relative_time <= recorded_data[j].relative_time

C6_StopIdempotent ==
    [][(last'.op = "stop_recording" /\ (last.op = "stop_recording" \/ last.op = "init")) =>
          /\ ~last'.raised
          /\ UNCHANGED recorder]_vars

\* C6 witness: a second stop_recording on a recorder that has recorded samples.
C6_Witness ==
    /\ last.op = "stop_recording" /\ last.repeated
    /\ recorded_data # <<>> /\ stream_info # <<>>
    /\ ~is_recording /\ inlets = <<>>

\* C7: every sample record_sample appends has relative_time equal to its
\* timestamp minus session_start_time, whatever the two values are.
C7_RelativeTime ==
    [][last'.op = "record_sample" =>
          \A k \in (Len(recorded_data) + 1)..Len(recorded_data') :
              LET x == recorded_data'[k]
              IN  x.relative_time = x.timestamp - session_start_time[1]]_vars

\* C8: a tick in the Recording state, with no call failing, pulls and appends
\* every sample queued in an open inlet: no inlet has a sample left.
C8_TickDrainsInlets ==
    [][(last'.op = "record_sample" /\ is_recording
            /\ \A j \in 1..Len(inlets) : last'.faults[j] = "ok") =>
          /\ \A j \in 1..Len(inlets') : inlets'[j].buf = <<>>
          /\ Len(recorded_data') = Len(recorded_data) + Queued(inlets)]_vars

\* C9: start_recording selects exactly the resolved streams whose name,
\* compared case-insensitively, equals or contains at least one of the given
\* patterns; with no pattern list, or an empty one, it selects every stream.
C9_FilterSelects ==
    (last.op = "start_recording" /\ last.outcome \in {"started", "no_match"}) =>
        last.selected =
            IF last.filters = None \/ last.filters[1] = <<>> THEN last.streams
            ELSE SelectSeq(last.streams,
                     LAMBDA s :
                         \E k \in 1..Len(last.filters[1]) :
                             Contains(Lower(last.filters[1][k]), Lower(Chars(s.name))))

\* C10: loading the file save_to_file just wrote yields as many samples as
\* were recorded, in the same order, each with the recorded timestamp,
\* relative_time, clock_offset and local_time_when_recorded, and the file's
\* total_samples is the number of entries of lsl_samples.
C10_SaveLoadRoundTrip ==
    (last.op = "load_session_data" /\ last.after_save) =>
        /\ Len(lsl_data) = Len(recorded_data)
        /\ \A k \in 1..Len(recorded_data) :
              /\ k <= Len(lsl_data)
              /\ lsl_data[k].timestamp = recorded_data[k].timestamp
              /\ lsl_data[k].relative_time = recorded_data[k].relative_time
              /\ lsl_data[k].clock_offset = recorded_data[k].clock_offset
              /\ lsl_data[k].local_time_when_recorded = recorded_data[k].local_time_when_recorded
        /\ TextToNum(file[1].total_samples) = Len(file[1].lsl_samples)

\* C10 witness: a loaded record of two samples recorded at different times,
\* one with a clock offset.
C10_Witness ==
    /\ last.op = "load_session_data" /\ last.after_save
    /\ Len(lsl_data) = 2 /\ Len(recorded_data) = 2
    /\ lsl_data[1].timestamp # lsl_data[2].timestamp
    /\ lsl_data[1].clock_offset = -1
    /\ lsl_data[2].relative_time > 0

\* C11 as stated: whenever save_to_file fails, _save_session_data leaves the
\* degraded record file: session_id, the stream metadata, session_start_time,
\* no sample, total_samples 0 and an error marker.
C11_DegradedSaveWritten ==
    (last.op = "end_session" /\ last.ran /\ last.had_recorder /\ last.save_fault # "none") =>
        /\ file = Some(MinimalRecord(last.save_fault))
        /\ last.raised => last.meta_fault

\* C11 amended: when save_to_file fails, _save_session_data catches the
\* failure and tries to write the degraded record.  If that write succeeds the
\* file holds session_id, the recorder's stream metadata and
\* session_start_time, no sample, total_samples 0 and an error marker.  If
\* that write fails too, its failure is caught as well and no complete record
\* file is left.  Neither failure propagates: the call raises only when the
\* later write of the session metadata fails.
C11_DegradedSaveAttempted ==
    (last.op = "end_session" /\ last.ran /\ last.had_recorder /\ last.save_fault # "none") =>
        /\ last.minimal_fault = "none" =>
              /\ file # None /\ file[1].complete
              /\ file[1].session_id = SessionId
              /\ file[1].stream_info = stream_info
              /\ TextToOpt(file[1].session_start_time) = session_start_time
              /\ file[1].lsl_samples = <<>>
              /\ TextToNum(file[1].total_samples) = 0
              /\ "error" \in DOMAIN file[1]
        /\ last.minimal_fault # "none" => (file = None \/ ~file[1].complete)
        /\ last.raised => last.meta_fault

\* C11 witness: the save of a recorder that holds a sample failed partway and
\* the degraded record was written.
C11_Witness ==
    /\ last.op = "end_session" /\ last.ran /\ last.had_recorder
    /\ last.save_fault = "write" /\ last.minimal_fault = "none" /\ ~last.raised
    /\ recorded_data # <<>> /\ stream_info # <<>>
    /\ file # None /\ file[1].complete /\ file[1].lsl_samples = <<>>

\* C12: every run of _end_session in which no write to disk fails leaves a
\* loadable record file (lsl_recorded_data.json), whatever was recorded and
\* whether or not the recorder could be created and started.
C12_EndLeavesRecord ==
    (last.op = "end_session" /\ last.ran /\ last.save_fault = "none" /\ ~last.meta_fault) =>
        (file # None /\ file[1].complete)

\* C18: when the screen recorder starts during a session, its start time is
\* emitted as a video_recording_started event.
C18_VideoStartEmitted ==
    (last.op = "setup_screen_recording" /\ last.started) =>
        (window.screen_recorder # None /\ window.screen_recorder[1].sync_sent)

\* C13: after any sequence of slider changes, event selections,
\* play-from-beginning and playback ticks, 0 <= current_time <= session_duration.
C13_CurrentTimeInRange ==
    review.pc = "ready" =>
        (0 <= review.current_time /\ review.current_time <= review.session_duration)

\* C14: a playback tick while not seeking adds 0.1 s times the speed (25 ms
\* for each quarter of speed) to current_time; if the sum reaches or exceeds
\* session_duration, current_time becomes exactly session_duration, is_playing
\* false and the playback timer stopped; otherwise playback goes on.
C14_AdvanceClamps ==
    [][(last'.op = "update_playback" /\ ~review.seeking) =>
          LET t == review.current_time + 25 * last'.speed
          IN  IF t >= review.session_duration
              THEN /\ review'.current_time = review.session_duration
                   /\ ~review'.is_playing
                   /\ ~review'.playback_timer
              ELSE /\ review'.current_time = t
                   /\ review'.is_playing /\ review'.playback_timer]_vars

\* C14 witness: a tick that stepped past the end of a session of positive
\* duration and stopped playback exactly at the end.
C14_Witness ==
    /\ last.op = "update_playback" /\ ~last.seeking
    /\ review.session_duration > 0
    /\ last.from < review.session_duration
    /\ last.from + 25 * last.speed > review.session_duration
    /\ review.current_time = review.session_duration
    /\ ~review.is_playing /\ ~review.playback_timer

\* C17: the frame shown is clamp(round(current_time * fps), 0, frame_count - 1):
\* for a video of at least one frame, a frame nearest to current_time * fps,
\* clamped, and always an index in [0, frame_count - 1].
C17_FrameIsRounded ==
    (review.pc = "ready" /\ review.frame_number # None /\ review.video_frame_count > 0) =>
        LET p == review.current_time * review.video_fps       \* thousandths of a frame
            n == review.frame_number[1]
        IN  /\ 0 <= n /\ n <= review.video_frame_count - 1
            /\ \E f \in ((p \div 1000) - 1)..((p \div 1000) + 1) :
                  /\ 2 * (IF 1000 * f >= p THEN 1000 * f - p ELSE p - 1000 * f) <= 1000
                  /\ n = Max(0, Min(f, review.video_frame_count - 1))

\* C15: _get_mouse_position_at_time returns the position of the mouse sample
\* that minimizes |relative_time - time|, the earliest in the record among
\* equally close ones, and none when the record holds no mouse sample;
\* samples of other streams play no part.
C15_NearestSample ==
    last.op = "get_mouse_position_at_time" =>
        LET mouse == {k \in 1..Len(lsl_data) : lsl_data[k].stream_name = MouseName}
            dist(k) == Abs(lsl_data[k].relative_time - last.time)
        IN  IF mouse = {} THEN last.result = None
            ELSE \E k \in mouse :
                    /\ \A j \in mouse : dist(k) <= dist(j)
                    /\ \A j \in mouse : j < k => dist(j) > dist(k)
                    /\ last.result = Some(<<lsl_data[k].data.value.values[1],
                                            lsl_data[k].data.value.values[2]>>)

\* C15 witness: a query with two equally close mouse samples at different
\* positions, answered with the earlier one, while a sample of another stream
\* lies closer to the queried time.
C15_Witness ==
    /\ last.op = "get_mouse_position_at_time"
    /\ Len(lsl_data) = 3
    /\ lsl_data[1].stream_name = MouseName /\ lsl_data[3].stream_name = MouseName
    /\ lsl_data[2].stream_name = BridgeName
    /\ Abs(lsl_data[1].relative_time - last.time) = Abs(lsl_data[3].relative_time - last.time)
    /\ Abs(lsl_data[2].relative_time - last.time) < Abs(lsl_data[1].relative_time - last.time)
    /\ PositionOf(lsl_data[1]) # PositionOf(lsl_data[3])
    /\ last.result = PositionOf(lsl_data[1])

\* C16: _get_mouse_trail(time, window) returns exactly the mouse samples whose
\* relative_time lies in [time - window, time], in record order.
C16_TrailIsInterval ==
    last.op = "get_mouse_trail" =>
        LET hits == SelectSeq(lsl_data,
                        LAMBDA x : /\ x.stream_name = MouseName
                                   /\ last.time - last.duration <= x.relative_time
                                   /\ x.relative_time <= last.time)
        IN  last.result = [k \in 1..Len(hits) |->
                              <<hits[k].data.value.values[1], hits[k].data.value.values[2]>>]

\* C19: with normalization enabled and a reference of positive width and
\* height, the position a tracking point carries is
\* (clamp(x / width, 0, 1), clamp(y / height, 0, 1)): 0 for a coordinate at or
\* below 0, 1 for one at or beyond the reference size, the exact quotient in
\* between; both outputs lie in [0, 1] for every x and y.
C19_NormalizedIsClampedQuotient ==
    (/\ last.op \in {"collect_tracking_data", "on_mouse_press", "on_mouse_release",
                     "on_mouse_move", "on_wheel_event"}
     /\ window.normalize_mouse_coordinates
     /\ last.reference[1].num > 0 /\ last.reference[2].num > 0) =>
        \A i \in {1, 2} :
            LET v == last.tracking_point.absolute_position[i]
                size == last.reference[i].num
                n == last.tracking_point.mouse_position[i]
            IN  /\ n.den > 0
                /\ 0 <= n.num /\ n.num <= n.den
                /\ v <= 0 => n.num = 0
                /\ v >= size => n.num = n.den
                /\ (0 < v /\ v < size) => n.num * size = v * n.den

\* A cursor left of and below the configured 4 x 2 reference is stored as (0, 1),
\* and one inside it, at (1, 1), as (1/4, 1/2).
C19_Witness ==
    /\ last.op = "collect_tracking_data"
    /\ window.normalize_mouse_coordinates
    /\ window.target_window_size = Some(<<4, 2>>)
    /\ last.tracking_point.absolute_position \in {<<-3, 5>>, <<1, 1>>}
    /\ last.tracking_point.absolute_position = <<-3, 5>> =>
           /\ last.tracking_point.mouse_position[1].num = 0
           /\ last.tracking_point.mouse_position[2].num
                  = last.tracking_point.mouse_position[2].den
    /\ last.tracking_point.absolute_position = <<1, 1>> =>
           /\ last.tracking_point.mouse_position[1].num * 4
                  = last.tracking_point.mouse_position[1].den
           /\ last.tracking_point.mouse_position[2].num * 2
                  = last.tracking_point.mouse_position[2].den
    /\ last.pushed # None

C22_VideoUnavailable ==
    [][/\ (last'.op = "load_session_data" /\ ~review'.video_cap) =>
              /\ ~last'.raised
              /\ review'.pc = "ready"
              /\ lsl_data' = LoadedSamples
              /\ \E d \in {0, 100} :
                     review'.session_duration = SessionDuration(LoadedSamples, d)
              /\ review'.frame_number = None
       /\ (review.pc = "ready" /\ ~review.video_cap) =>
              /\ ~review'.video_cap
              /\ review'.frame_number = None
              /\ lsl_data' = lsl_data
              /\ ~last'.raised]_vars

\* Without a video, the first event of a loaded record was selected in the
\* events table and the window moved to its time; no frame was looked up.
C22_Witness ==
    /\ last.op = "on_event_selected" /\ last.row = 1
    /\ ~review.video_cap
    /\ review.frame_number = None
    /\ Len(lsl_data) = 3
    /\ review.current_time = 20
    /\ review.session_duration = 100

\* C23: stop() never raises and waits in join no longer than the join
\* timeout, also when the worker has not exited or the cleanup fails; and once
\* stop() has set the stop flag for the worker thread it joins, that thread
\* eventually terminates, given that the device calls return.
C23_StopTerminatesWorker ==
    /\ [](last.op = "stop" => /\ ~last.raised
                              /\ last.ran => last.waited <= JoinTimeout)
    /\ \A k \in 1..MaxThreads :
           (emotibit.main = "join" /\ emotibit.thread = Some(k)) ~> ~Alive(emotibit, k)

\* C29: at most one worker thread of a streamer is alive at any time.
C29_OneWorker ==
    Cardinality({k \in 1..Len(emotibit.threads) : Alive(emotibit, k)}) <= 1

\* C24: a save_to_file whose write succeeds writes one entry per recorded
\* sample, in order.  For a sample whose first channel is a string holding a
\* JSON document, data is the parsed document and raw_data the channel values;
\* for a string that is no JSON document, and for a numeric sample, data and
\* raw_data are the channel values.  save_to_file raises only when the write
\* itself fails, never because of a payload, and the review window loads every
\* entry of either form.
C24_OneEntryPerSample ==
    /\ (last.op = "save_to_file" /\ last.raised) => last.io_fault # "none"
    /\ (last.op = "save_to_file" /\ last.io_fault = "none") =>
          /\ ~last.raised
          /\ file # None /\ file[1].complete
          /\ Len(file[1].lsl_samples) = Len(recorded_data)
          /\ \A k \in 1..Len(recorded_data) :
                LET sample == recorded_data[k]
                    entry == file[1].lsl_samples[k]
                    first == sample.data.values[1]
                IN  /\ k <= Len(file[1].lsl_samples)
                    /\ entry.raw_data # None
                    /\ LoadValues(entry.raw_data[1]) = sample.data
                    /\ IF sample.data.kind = "str" /\ first \in {ClickEventText, SessionStartText}
                       THEN /\ entry.data.decoded
                            /\ entry.data.value.type
                                   = (IF first = ClickEventText THEN "click" ELSE "session_start")
                       ELSE /\ ~entry.data.decoded
                            /\ LoadValues(entry.data.value) = sample.data
    /\ (last.op = "load_session_data" /\ last.after_save) =>
          /\ Len(lsl_data) = Len(recorded_data)
          /\ \A k \in 1..Len(recorded_data) :
                /\ k <= Len(lsl_data)
                /\ lsl_data[k].raw_data = Some(recorded_data[k].data)
                /\ lsl_data[k].data.decoded
                       = (/\ recorded_data[k].data.kind = "str"
                          /\ recorded_data[k].data.values[1]
                                 \in {ClickEventText, SessionStartText})
                /\ ~lsl_data[k].data.decoded => lsl_data[k].data.value = recorded_data[k].data

\* A record of two markers that are no JSON documents was saved: the file
\* holds two entries, each with the marker's channel values as its data.
C24_Witness ==
    /\ last.op = "save_to_file" /\ ~last.raised
    /\ Len(recorded_data) = 2
    /\ Len(file[1].lsl_samples) = 2
    /\ \A k \in 1..2 :
          /\ recorded_data[k].data.kind = "str"
          /\ recorded_data[k].data.values[1] = PlainMarkerText
          /\ ~file[1].lsl_samples[k].data.decoded
          /\ file[1].lsl_samples[k].data.value.values = <<PlainMarkerText>>

\* C25: record_sample called on a recorder that is not recording (Idle or
\* Stopped) leaves recorded_data and every other field of the recorder
\* unchanged.  While the recorder is not recording, no call other than
\* start_recording changes recorded_data, and a save_to_file whose write
\* succeeds writes one entry per sample of recorded_data: the record saved after
\* stop_recording holds the samples present when stop_recording was called.
C25_RecordOnlyWhileRecording ==
    [][/\ (last'.op = "record_sample" /\ ~is_recording) =>
              /\ UNCHANGED recorder
              /\ ~last'.raised /\ last'.appended = 0
       /\ (~is_recording /\ last'.op # "start_recording") =>
              recorded_data' = recorded_data
       /\ last'.op = "stop_recording" => recorded_data' = recorded_data
       /\ (last'.op = "save_to_file" /\ last'.io_fault = "none") =>
              /\ recorded_data' = recorded_data
              /\ Len(file'[1].lsl_samples) = Len(recorded_data)
              /\ \A k \in 1..Len(recorded_data) :
                     TextToNum(file'[1].lsl_samples[k].timestamp)
                         = recorded_data[k].timestamp]_vars

\* A stopped recorder holding two samples was ticked once more.
C25_Witness ==
    /\ last.op = "record_sample" /\ ~last.was_recording
    /\ ~is_recording /\ session_start_time # None
    /\ Len(recorded_data) = 2

\* C26: the teardown body of _end_session runs at most once per session
\* window, and session_ended is emitted exactly once by it, whichever of the
\* End Session button, the delayed call after a session_end event, the delayed
\* self.close and closeEvent call _end_session, and in any order.
C26_TeardownOnceEmittedOnce ==
    /\ window.teardowns <= 1
    /\ window.emitted = window.teardowns

\* C27: every structured event received from the page while the event streamer
\* is open is pushed onto the event stream, whatever its type, session_end
\* included: a recorder subscribed to the stream receives it.
C27_EveryEventPushed ==
    [][((HandleBridgeEvent \/ HandleSessionEnd)
            /\ window.lsl_streamer /\ is_recording /\ InletsOn(BridgeStream) # {}
            /\ Len(recorded_data) + Queued(inlets) < MaxSamples)
        => \E k \in InletsOn(BridgeStream) :
               Len(inlets'[k].buf) = Len(inlets[k].buf) + 1]_vars

\* C28: playback terminates: once playback is started and the user neither
\* pauses nor holds the slider, the ticks of the playback timer eventually
\* bring current_time to session_duration and set is_playing to false,
\* whatever the speed and the session duration.
C28_PlaybackTerminates ==
    review.is_playing ~>
        (review.current_time = review.session_duration /\ ~review.is_playing)

\* Playback over a session of 100 ms ended by a tick at 0.25x from 75 ms.
C28_Witness ==
    /\ last.op = "update_playback" /\ last.speed = 1 /\ last.from = 75
    /\ review.session_duration = 100
    /\ review.current_time = review.session_duration /\ ~review.is_playing

\* C30: while the recorder is Recording, inlets and stream_info have the same
\* length and stream_info[i] describes the stream of inlets[i], after any
\* sequence of start_recording, record_sample and stop_recording calls.
C30_InfoDescribesInlets ==
    is_recording =>
        /\ Len(inlets) = Len(stream_info)
        /\ \A i \in 1..Len(inlets) : stream_info[i] = InfoOf(inlets[i].stream)

\* C31: when stop_recording is called, every sample a subscribed producer
\* pushed before the last completed tick is in recorded_data: after a tick in
\* which no call failed, no sample is still queued in an inlet for stop to
\* drop, however many samples were pushed between two ticks.
C31_NothingQueuedAtStop ==
    [][((\E closeRaises \in BOOLEAN : StopRecording(closeRaises))
            /\ is_recording
            /\ last.op = "record_sample" /\ last.faults = NoFaults)
        => \A i \in 1..Len(inlets) : inlets[i].buf = <<>>]_vars

\* C32: within record_sample every sample that is pulled (removed) from an
\* inlet is appended to recorded_data, also when inlet.time_correction() fails
\* after the pull: a tick removes as many samples from the inlets as it
\* appends to the record.
C32_PulledIsRecorded ==
    [][(\E faults \in [1..Len(inlets) -> {"ok", "pull", "time_correction"}],
           offsets \in [1..Len(inlets) -> {-1, 0}] : RecordSample(faults, offsets))
        => Queued(inlets) - Queued(inlets') = Len(recorded_data') - Len(recorded_data)]_vars

\* C33: a start_recording that fails partway (an exception while an inlet is
\* opened) leaves the recorder not recording, with the inlets and the
\* stream_info entries it had before the call and none of the call's own.
C33_FailedStartLeavesNothing ==
    [][(\E streams \in SessionResolveResults, resolveRaises \in BOOLEAN, failAt \in 0..MaxInfo :
            StartRecording(streams, None, resolveRaises, failAt))
        /\ last'.outcome = "error"
        => ~is_recording' /\ inlets' = inlets /\ stream_info' = stream_info]_vars

\* C34: after _load_session_data on a non-empty record, session_duration is
\* >= 0 and >= the relative_time of every loaded sample, whatever the
\* relative_time of the first sample.
C34_DurationCoversSamples ==
    (review.pc = "ready" /\ lsl_data # <<>>) =>
        /\ review.session_duration >= 0
        /\ \A k \in 1..Len(lsl_data) :
               lsl_data[k].relative_time <= review.session_duration

\* C35: in the review overlay a stored coordinate pair is treated as
\* normalized exactly when it was stored normalized at capture time
\* (normalization enabled and the reference valid), and as absolute pixels
\* exactly when it was stored absolute, for every coordinate value.
C35_TreatedAsStored ==
    (last.op = "update_overlay" /\ last.is_normalized # None) =>
        (last.is_normalized[1] <=>
            /\ window.normalize_mouse_coordinates
            /\ FloatLess(Float(0), last.reference[1])
            /\ FloatLess(Float(0), last.reference[2]))

\* C36: if ScreenRecorder.start_recording raises (no usable codec, or the
\* video writer cannot be opened), is_recording is false afterwards and no
\* capture thread runs.
C36_FailedStartNotRecording ==
    (last.op = "screen_start" /\ last.raised) =>
        /\ ~capture.is_recording
        /\ \A k \in 1..Len(capture.threads) : ~CaptureAlive(capture, k)

\* C37: at most one capture thread of a ScreenRecorder runs at any time, and
\* no frame is written after stop_recording has returned, across any sequence
\* of start_recording and stop_recording, also when the join times out.
C37_OneCaptureThread ==
    /\ Cardinality({k \in 1..Len(capture.threads) : CaptureAlive(capture, k)}) <= 1
    /\ ~capture.stopped_write

\* C38: the record file _save_session_data writes at the end of a session is
\* the file _load_session_lsl_data reads for that project and session, so
\* export_session_data after a completed session includes its record.
C38_ExportIncludesRecord ==
    (last.op = "export_session_data" /\ last.saved) =>
        /\ ~last.raised
        /\ last.lsl_data = Some(RecordOf(last.session_id))

\* C39: delete_session for a session create_session returned, and that still
\* exists, returns True and removes the session's folder and metadata, with
\* no reload of the project in between; it returns False only for a session
\* that does not exist.
C39_DeleteCreatedSession ==
    (last.op = "delete_session" /\ last.existed) =>
        /\ last.result
        /\ \A f \in project.files : ~(f.root = "sessions" /\ f.session = last.session_id)

====
